---- MODULE Spec2Model ----
(***************************************************************************)
(* The inventory ledger and the session engine of the inventory tracker.   *)
(* Tables are modelled by what the handlers read and write:                *)
(*   inventory              (product_id, location_id) -> quantity          *)
(*   inventory_transactions the ledger, in insertion order                 *)
(*   sessions               in insertion order; a session's id is its      *)
(*                          position                                       *)
(* Every action is one handler run to completion.  last records the call   *)
(* that was made and how it ended ("ok" or the error it threw).            *)
(***************************************************************************)
EXTENDS Integers, Sequences, FiniteSets, TLC

VARIABLES inventory, ledger, sessions, last,
          products, users, reports, audit_logs, requests, pagination

vars == <<inventory, ledger, sessions, last,
          products, users, reports, audit_logs, requests, pagination>>

\* The tables and the request state the inventory and session handlers never
\* touch.
outside == <<products, users, reports, audit_logs, requests, pagination>>

----------------------------------------------------------------------------
(* Bounds of the model *)

MaxLedger == 2
MaxSessions == 1

(* Rows of the schema's seed *)
SeedQtyCab == 12
SeedQtyChard == 24

NULL == "NULL"
NoSession == 0

Products == {"prod-001", "prod-002"}
Locations == {"loc-001", "loc-002"}
SessionTypes == {"check_in", "check_out", "inventory_count"}

\* Quantities and target quantities a request may carry.
QtyInputs == {-1, 0, 1, 2}
\* The movements and counts of well-formed requests.
PositiveQty == {q \in QtyInputs : q > 0}
CountedQty == {q \in QtyInputs : q >= 0}
SessionIds == 1..MaxSessions

Abs(n) == IF n < 0 THEN 0 - n ELSE n

----------------------------------------------------------------------------
(* The inventory table *)

HasRow(inv, p, l) == <<p, l>> \in DOMAIN inv

\* UPDATE inventory SET quantity = quantity + d WHERE product_id = p AND location_id = l
AddToRow(inv, p, l, d) ==
    IF HasRow(inv, p, l) THEN [inv EXCEPT ![<<p, l>>] = @ + d] ELSE inv

\* INSERT INTO inventory (product_id, location_id, quantity)
InsertRow(inv, p, l, q) == inv @@ (<<p, l>> :> q)

updateInventoryForCheckIn(inv, p, l, q) ==
    IF HasRow(inv, p, l)
    THEN [inv |-> AddToRow(inv, p, l, q), outcome |-> "ok"]
    ELSE [inv |-> InsertRow(inv, p, l, q), outcome |-> "ok"]

updateInventoryForCheckOut(inv, p, l, q) ==
    IF ~HasRow(inv, p, l)
    THEN [inv |-> inv, outcome |-> "NotFound"]
    ELSE IF inv[<<p, l>>] < q
    THEN [inv |-> inv, outcome |-> "InsufficientStock"]
    ELSE [inv |-> AddToRow(inv, p, l, 0 - q), outcome |-> "ok"]

\* Faulty variant: the destination is credited, the source is not debited.
updateInventoryForTransfer_KeepsSource(inv, p, src, dst, q) ==
    IF ~HasRow(inv, p, src)
    THEN [inv |-> inv, outcome |-> "NotFound"]
    ELSE IF inv[<<p, src>>] < q
    THEN [inv |-> inv, outcome |-> "InsufficientStock"]
    ELSE IF HasRow(inv, p, dst)
    THEN [inv |-> AddToRow(inv, p, dst, q), outcome |-> "ok"]
    ELSE [inv |-> InsertRow(inv, p, dst, q), outcome |-> "ok"]

updateInventoryForTransfer(inv, p, src, dst, q) ==
    IF ~HasRow(inv, p, src)
    THEN [inv |-> inv, outcome |-> "NotFound"]
    ELSE IF inv[<<p, src>>] < q
    THEN [inv |-> inv, outcome |-> "InsufficientStock"]
    ELSE LET afterSource == AddToRow(inv, p, src, 0 - q)
         IN  IF HasRow(afterSource, p, dst)
             THEN [inv |-> AddToRow(afterSource, p, dst, q), outcome |-> "ok"]
             ELSE [inv |-> InsertRow(afterSource, p, dst, q), outcome |-> "ok"]

----------------------------------------------------------------------------
(* The ledger *)

Row(type, p, src, dst, q, sid) ==
    [transaction_type |-> type, product_id |-> p,
     source_location_id |-> src, destination_location_id |-> dst,
     quantity |-> q, session_id |-> sid]

\* The part of createInventoryTransaction after the INSERT: the inventory
\* update chosen by the row's type.
applyTransaction(inv, row) ==
    IF row.transaction_type = "check_in" /\ row.destination_location_id # NULL
    THEN updateInventoryForCheckIn(inv, row.product_id,
                                   row.destination_location_id, row.quantity)
    ELSE IF row.transaction_type = "check_out" /\ row.source_location_id # NULL
    THEN updateInventoryForCheckOut(inv, row.product_id,
                                    row.source_location_id, row.quantity)
    ELSE IF row.transaction_type = "transfer" /\ row.source_location_id # NULL
                                              /\ row.destination_location_id # NULL
    THEN updateInventoryForTransfer(inv, row.product_id, row.source_location_id,
                                    row.destination_location_id, row.quantity)
    ELSE [inv |-> inv, outcome |-> "ok"]

\* createInventoryTransaction: the ledger row is inserted first, the
\* inventory update (which may throw) follows.
createInventoryTransaction(inv, led, row) ==
    LET applied == applyTransaction(inv, row)
    IN  [inv |-> applied.inv, led |-> Append(led, row), outcome |-> applied.outcome]

\* The shapes in which the callers fill source and destination.
TxShapes ==
    {[type |-> "check_in", src |-> NULL, dst |-> d] : d \in Locations}
    \cup {[type |-> "check_out", src |-> s, dst |-> NULL] : s \in Locations}
    \cup {[type |-> "transfer", src |-> s, dst |-> d] : s \in Locations, d \in Locations}
    \cup {[type |-> "adjustment", src |-> NULL, dst |-> d] : d \in Locations}
    \cup {[type |-> "adjustment", src |-> s, dst |-> NULL] : s \in Locations}

Call(op, type, p, src, dst, q, sid, outcome) ==
    [op |-> op, type |-> type, product_id |-> p, source_location_id |-> src,
     destination_location_id |-> dst, quantity |-> q, session_id |-> sid,
     outcome |-> outcome]

----------------------------------------------------------------------------
(* The catalog *)

MaxProducts == 3

\* The ids generateId('prod-') hands out, in the order they are used.
GeneratedProductIds == <<"prod-003", "prod-004", "prod-005">>

\* The seeded categories the seeded products belong to, with their parents.
Categories == {"cat-001", "cat-002", "cat-101", "cat-102"}
CategoryParent ==
    [c \in Categories |-> IF c \in {"cat-101", "cat-102"} THEN "cat-001" ELSE NULL]

\* Barcodes a request may carry: none, the empty string of a blank form
\* field, the barcode of a seeded product, a fresh one.
Barcodes == {NULL, "", "CAB123456", "NEW123456"}

Product(barcode, category, price, cost, minimum, active) ==
    [barcode |-> barcode, category_id |-> category, unit_price |-> price,
     unit_cost |-> cost, minimum_stock |-> minimum, is_active |-> active]

SeedProducts ==
    ("prod-001" :> Product("CAB123456", "cat-101", 45, 30, 0, 1))
    @@ ("prod-002" :> Product("CHAR123456", "cat-102", 35, 22, 0, 1))

\* JavaScript's truthiness of a barcode: null and the empty string are falsy.
Truthy(barcode) == barcode # NULL /\ barcode # ""

\* SELECT id FROM products WHERE barcode = ? [AND id != ?]
productsWithBarcode(prods, barcode, except) ==
    {id \in DOMAIN prods \ except : prods[id].barcode = barcode}

\* Faulty variant: the barcode column carries no UNIQUE constraint.
uniqueBarcodeViolated_NoConstraint(prods, barcode, except) == FALSE

\* The schema's barcode TEXT UNIQUE: a non-null barcode may be held by one
\* row only; NULLs never collide.
uniqueBarcodeViolated(prods, barcode, except) ==
    barcode # NULL /\ productsWithBarcode(prods, barcode, except) # {}

generateProductId(prods) ==
    GeneratedProductIds[Cardinality(DOMAIN prods) - Cardinality(DOMAIN SeedProducts) + 1]

createProduct(prods, data) ==
    IF Truthy(data.barcode) /\ productsWithBarcode(prods, data.barcode, {}) # {}
    THEN [products |-> prods, id |-> NULL, outcome |-> "DuplicateKey"]
    ELSE IF uniqueBarcodeViolated(prods, data.barcode, {})
    THEN [products |-> prods, id |-> NULL, outcome |-> "UniqueConstraint"]
    ELSE LET id == generateProductId(prods)
         IN  [products |-> prods @@ (id :> Product(data.barcode, data.category_id,
                                                   data.unit_price, data.unit_cost,
                                                   data.minimum_stock, 1)),
              id |-> id, outcome |-> "ok"]

\* The UPDATE updateProduct builds: every key of productData is SET.
setColumns(row, data) ==
    [k \in DOMAIN row |-> IF k \in DOMAIN data THEN data[k] ELSE row[k]]

updateProduct(prods, id, data) ==
    IF id \notin DOMAIN prods
    THEN [products |-> prods, outcome |-> "NotFound"]
    ELSE IF /\ "barcode" \in DOMAIN data
            /\ Truthy(data.barcode)
            /\ data.barcode # prods[id].barcode
            /\ productsWithBarcode(prods, data.barcode, {id}) # {}
    THEN [products |-> prods, outcome |-> "DuplicateKey"]
    ELSE IF DOMAIN data = {}
    THEN [products |-> prods, outcome |-> "ok"]
    ELSE IF "barcode" \in DOMAIN data
            /\ uniqueBarcodeViolated(prods, data.barcode, {id})
    THEN [products |-> prods, outcome |-> "UniqueConstraint"]
    ELSE [products |-> [prods EXCEPT ![id] = setColumns(@, data)], outcome |-> "ok"]

\* Faulty variant: the product row is deleted.
deleteProduct_HardDelete(prods, id) ==
    IF id \notin DOMAIN prods
    THEN [products |-> prods, outcome |-> "NotFound"]
    ELSE [products |-> [k \in DOMAIN prods \ {id} |-> prods[k]], outcome |-> "ok"]

deleteProduct(prods, id) ==
    IF id \notin DOMAIN prods
    THEN [products |-> prods, outcome |-> "NotFound"]
    ELSE [products |-> [prods EXCEPT ![id].is_active = 0], outcome |-> "ok"]

----------------------------------------------------------------------------
(* Authentication *)

JWT_SECRET == "inventory-tracker-secret-key"

Usernames == {"admin", "clerk"}
Passwords == {"admin-password", "wrong-password"}
Roles == {"admin", "manager", "staff"}

\* The ids generateId('user-') hands out, in the order they are used.
GeneratedUserIds == <<"user-001", "user-002">>

\* bcrypt: the hash carries its salt and the digest of the salted password;
\* comparing digests the candidate with the salt of the stored hash.
Digest(password, salt) == <<"digest", password, salt>>
hashPassword(password, salt) == <<"$2a$10$", salt, Digest(password, salt)>>
verifyPassword(password, hash) == hash[3] = Digest(password, hash[2])

User(id, hash, role, active, login) ==
    [id |-> id, password_hash |-> hash, role |-> role, active |-> active,
     last_login |-> login]

\* The seeded administrator.
SeedUsers ==
    "admin" :> User("admin-001", hashPassword("admin-password", "JwXdZpLK1dFJBoGdA.4Xz."),
                    "admin", 1, NULL)

\* jwt.sign / jwt.verify: the payload travels with a signature made with the
\* secret and an expiry; verification yields the payload or null.
generateToken(user, username) ==
    [id |-> user.id, username |-> username, role |-> user.role,
     signature |-> JWT_SECRET, expired |-> FALSE]

\* An optional value: <<>> is null, <<v>> the value v.
None == <<>>
Some(v) == <<v>>

verifyToken(token) ==
    IF token.signature # JWT_SECRET \/ token.expired THEN None
    ELSE Some([id |-> token.id, username |-> token.username, role |-> token.role])

\* SELECT * FROM users WHERE username = ? AND active = 1
findActiveUser(usrs, username) ==
    IF username \in DOMAIN usrs /\ usrs[username].active = 1
    THEN Some(usrs[username]) ELSE None

authenticateUser(usrs, username, password) ==
    LET user == findActiveUser(usrs, username)
    IN  IF user = None
        THEN [users |-> usrs, token |-> None, outcome |-> "User not found"]
        ELSE IF ~verifyPassword(password, user[1].password_hash)
        THEN [users |-> usrs, token |-> None, outcome |-> "Invalid password"]
        ELSE [users |-> [usrs EXCEPT ![username].last_login = "CURRENT_TIMESTAMP"],
              token |-> Some(generateToken(user[1], username)), outcome |-> "ok"]

createUser(usrs, username, password, role, salt) ==
    IF username \in DOMAIN usrs
    THEN [users |-> usrs, id |-> NULL, outcome |-> "Username already exists"]
    ELSE LET id == GeneratedUserIds[Cardinality(DOMAIN usrs)]
         IN  [users |-> usrs @@ (username :> User(id, hashPassword(password, salt),
                                                  role, 1, NULL)),
              id |-> id, outcome |-> "ok"]

Salts == {"salt-a", "salt-b"}

NoRequests == <<>>

----------------------------------------------------------------------------
----------------------------------------------------------------------------
(* usePagination: the hook's state is the current page; the data list and   *)
(* the page size are the arguments it is rendered with.                     *)

MaxItems == 7
DefaultItemsPerPage == 10

Pager(length, itemsPerPage, currentPage) ==
    [length |-> length, itemsPerPage |-> itemsPerPage, currentPage |-> currentPage]

\* usePagination() rendered without arguments: data = [], itemsPerPage = 10.
NoPagination == Pager(0, DefaultItemsPerPage, 1)

\* Math.ceil(data.length / itemsPerPage)
totalPages(pager) ==
    (pager.length + pager.itemsPerPage - 1) \div pager.itemsPerPage

Max(a, b) == IF a >= b THEN a ELSE b
Min(a, b) == IF a <= b THEN a ELSE b

\* Faulty variant: the page is capped at the last page only.
goToPage_NoLowerClamp(pager, page) ==
    [pager EXCEPT !.currentPage = Min(page, totalPages(pager))]

goToPage(pager, page) ==
    [pager EXCEPT !.currentPage = Max(1, Min(page, totalPages(pager)))]

nextPage(pager) ==
    IF pager.currentPage < totalPages(pager)
    THEN [pager EXCEPT !.currentPage = @ + 1] ELSE pager

prevPage(pager) ==
    IF pager.currentPage > 1
    THEN [pager EXCEPT !.currentPage = @ - 1] ELSE pager

\* What the hook returns to the component.
usePagination(pager) ==
    [currentPage |-> pager.currentPage,
     totalPages |-> totalPages(pager),
     hasNext |-> pager.currentPage < totalPages(pager),
     hasPrev |-> pager.currentPage > 1]

SeedInventory ==
    (<<"prod-001", "loc-001">> :> SeedQtyCab) @@ (<<"prod-002", "loc-001">> :> SeedQtyChard)

Init ==
    /\ inventory = SeedInventory
    /\ ledger = <<>>
    /\ sessions = <<>>
    /\ last = Call("none", NULL, NULL, NULL, NULL, 0, NoSession, "ok")
    /\ products = SeedProducts
    /\ users = SeedUsers
    /\ reports = <<>>
    /\ audit_logs = <<>>
    /\ requests = NoRequests
    /\ pagination = NoPagination

\* A direct call of createInventoryTransaction (sessionId defaults to null).
CreateInventoryTransaction(shape, p, q) ==
    /\ Len(ledger) < MaxLedger
    /\ LET row == Row(shape.type, p, shape.src, shape.dst, q, NoSession)
           r == createInventoryTransaction(inventory, ledger, row)
       IN  /\ inventory' = r.inv
           /\ ledger' = r.led
           /\ last' = Call("createInventoryTransaction", shape.type, p, shape.src,
                           shape.dst, q, NoSession, r.outcome)
    /\ UNCHANGED <<sessions, outside>>

\* updateInventoryQuantity: the inventory row is written first, then the
\* adjustment is logged through createInventoryTransaction.
updateInventoryQuantity(inv, led, p, l, quantity) ==
    IF HasRow(inv, p, l)
    THEN LET adjustment == quantity - inv[<<p, l>>]
             written == [inv EXCEPT ![<<p, l>>] = quantity]
             row == Row("adjustment", p,
                        IF adjustment < 0 THEN l ELSE NULL,
                        IF adjustment > 0 THEN l ELSE NULL,
                        Abs(adjustment), NoSession)
         IN  createInventoryTransaction(written, led, row)
    ELSE LET written == InsertRow(inv, p, l, quantity)
             row == Row("adjustment", p, NULL, l, quantity, NoSession)
         IN  createInventoryTransaction(written, led, row)

UpdateInventoryQuantity(p, l, quantity) ==
    /\ Len(ledger) < MaxLedger
    /\ LET r == updateInventoryQuantity(inventory, ledger, p, l, quantity)
       IN  /\ inventory' = r.inv
           /\ ledger' = r.led
           /\ last' = Call("updateInventoryQuantity", "adjustment", p, l, l,
                           quantity, NoSession, r.outcome)
    /\ UNCHANGED <<sessions, outside>>

----------------------------------------------------------------------------
(* The session engine *)

Session(type, status, l, completed) ==
    [session_type |-> type, status |-> status, location_id |-> l,
     completed_at |-> completed]

Exists(sid) == sid \in DOMAIN sessions

\* SELECT ... FROM inventory_transactions WHERE session_id = sid
getSessionTransactions(led, sid) ==
    SelectSeq(led, LAMBDA t : t.session_id = sid)

CreateSession(type, l) ==
    /\ Len(sessions) < MaxSessions
    /\ sessions' = Append(sessions, Session(type, "in_progress", l, NULL))
    /\ last' = Call("createSession", type, NULL, l, l, 0, Len(sessions) + 1, "ok")
    /\ UNCHANGED <<inventory, ledger, outside>>

\* Faulty variant: only a check_out session checks out; every other type checks in.
sessionTransaction_CheckInByDefault(session, sid, p, q) ==
    LET transaction_type ==
            IF session.session_type = "check_out" THEN "check_out" ELSE "check_in"
    IN  Row(transaction_type, p,
            IF transaction_type = "check_out" THEN session.location_id ELSE NULL,
            IF transaction_type = "check_in" THEN session.location_id ELSE NULL,
            q, sid)

\* The transaction addProductToSession derives from the session.
sessionTransaction(session, sid, p, q) ==
    LET transaction_type ==
            IF session.session_type = "check_in" THEN "check_in" ELSE "check_out"
    IN  Row(transaction_type, p,
            IF transaction_type = "check_out" THEN session.location_id ELSE NULL,
            IF transaction_type = "check_in" THEN session.location_id ELSE NULL,
            q, sid)

\* Faulty variant: the session's status is not looked at.
AddProductToSession_AnyStatus(sid, p, q) ==
    IF ~Exists(sid)
    THEN /\ last' = Call("addProductToSession", NULL, NULL, NULL, NULL, 0, sid, "NotFound")
         /\ UNCHANGED <<inventory, ledger, sessions, outside>>
    ELSE /\ Len(ledger) < MaxLedger
         /\ LET row == sessionTransaction(sessions[sid], sid, p, q)
                r == createInventoryTransaction(inventory, ledger, row)
            IN  /\ inventory' = r.inv
                /\ ledger' = r.led
                /\ last' = Call("addProductToSession", row.transaction_type, p,
                                row.source_location_id, row.destination_location_id,
                                q, sid, r.outcome)
         /\ UNCHANGED <<sessions, outside>>

AddProductToSession(sid, p, q) ==
    IF ~Exists(sid)
    THEN /\ last' = Call("addProductToSession", NULL, NULL, NULL, NULL, 0, sid, "NotFound")
         /\ UNCHANGED <<inventory, ledger, sessions, outside>>
    ELSE IF sessions[sid].status # "in_progress"
    THEN /\ last' = Call("addProductToSession", NULL, NULL, NULL, NULL, 0, sid, "InvalidState")
         /\ UNCHANGED <<inventory, ledger, sessions, outside>>
    ELSE /\ Len(ledger) < MaxLedger
         /\ LET row == sessionTransaction(sessions[sid], sid, p, q)
                r == createInventoryTransaction(inventory, ledger, row)
            IN  /\ inventory' = r.inv
                /\ ledger' = r.led
                /\ last' = Call("addProductToSession", row.transaction_type, p,
                                row.source_location_id, row.destination_location_id,
                                q, sid, r.outcome)
         /\ UNCHANGED <<sessions, outside>>

\* Faulty variant: the reversal of a check_in adds the quantity once more.
reverseTransaction_SameSign(inv, t) ==
    IF t.transaction_type = "check_in"
    THEN AddToRow(inv, t.product_id, t.destination_location_id, t.quantity)
    ELSE IF t.transaction_type = "check_out"
    THEN AddToRow(inv, t.product_id, t.source_location_id, t.quantity)
    ELSE inv

\* The inverse effect cancelSession applies for one logged transaction.
reverseTransaction(inv, t) ==
    IF t.transaction_type = "check_in"
    THEN AddToRow(inv, t.product_id, t.destination_location_id, 0 - t.quantity)
    ELSE IF t.transaction_type = "check_out"
    THEN AddToRow(inv, t.product_id, t.source_location_id, t.quantity)
    ELSE inv

RECURSIVE reverseAll(_, _)
reverseAll(inv, transactions) ==
    IF transactions = <<>> THEN inv
    ELSE reverseAll(reverseTransaction(inv, Head(transactions)), Tail(transactions))

\* Faulty variant: completing settles the inventory the way cancelling does.
CompleteSession_SettlesInventory(sid) ==
    IF ~Exists(sid)
    THEN /\ last' = Call("completeSession", NULL, NULL, NULL, NULL, 0, sid, "NotFound")
         /\ UNCHANGED <<inventory, ledger, sessions, outside>>
    ELSE IF sessions[sid].status # "in_progress"
    THEN /\ last' = Call("completeSession", NULL, NULL, NULL, NULL, 0, sid, "InvalidState")
         /\ UNCHANGED <<inventory, ledger, sessions, outside>>
    ELSE /\ inventory' = reverseAll(inventory, getSessionTransactions(ledger, sid))
         /\ sessions' = [sessions EXCEPT ![sid].status = "completed",
                                         ![sid].completed_at = "CURRENT_TIMESTAMP"]
         /\ last' = Call("completeSession", NULL, NULL, NULL, NULL, 0, sid, "ok")
         /\ UNCHANGED <<ledger, outside>>

CompleteSession(sid) ==
    IF ~Exists(sid)
    THEN /\ last' = Call("completeSession", NULL, NULL, NULL, NULL, 0, sid, "NotFound")
         /\ UNCHANGED <<inventory, ledger, sessions, outside>>
    ELSE IF sessions[sid].status # "in_progress"
    THEN /\ last' = Call("completeSession", NULL, NULL, NULL, NULL, 0, sid, "InvalidState")
         /\ UNCHANGED <<inventory, ledger, sessions, outside>>
    ELSE /\ sessions' = [sessions EXCEPT ![sid].status = "completed",
                                         ![sid].completed_at = "CURRENT_TIMESTAMP"]
         /\ last' = Call("completeSession", NULL, NULL, NULL, NULL, 0, sid, "ok")
         /\ UNCHANGED <<inventory, ledger, outside>>

\* Faulty variant: a session is cancelled whatever its status.
CancelSession_AnyStatus(sid) ==
    IF ~Exists(sid)
    THEN /\ last' = Call("cancelSession", NULL, NULL, NULL, NULL, 0, sid, "NotFound")
         /\ UNCHANGED <<inventory, ledger, sessions, outside>>
    ELSE /\ inventory' = reverseAll(inventory, getSessionTransactions(ledger, sid))
         /\ sessions' = [sessions EXCEPT ![sid].status = "cancelled",
                                         ![sid].completed_at = "CURRENT_TIMESTAMP"]
         /\ last' = Call("cancelSession", NULL, NULL, NULL, NULL, 0, sid, "ok")
         /\ UNCHANGED <<ledger, outside>>

CancelSession(sid) ==
    IF ~Exists(sid)
    THEN /\ last' = Call("cancelSession", NULL, NULL, NULL, NULL, 0, sid, "NotFound")
         /\ UNCHANGED <<inventory, ledger, sessions, outside>>
    ELSE IF sessions[sid].status # "in_progress"
    THEN /\ last' = Call("cancelSession", NULL, NULL, NULL, NULL, 0, sid, "InvalidState")
         /\ UNCHANGED <<inventory, ledger, sessions, outside>>
    ELSE /\ inventory' = reverseAll(inventory, getSessionTransactions(ledger, sid))
         /\ sessions' = [sessions EXCEPT ![sid].status = "cancelled",
                                         ![sid].completed_at = "CURRENT_TIMESTAMP"]
         /\ last' = Call("cancelSession", NULL, NULL, NULL, NULL, 0, sid, "ok")
         /\ UNCHANGED <<ledger, outside>>

----------------------------------------------------------------------------
Next ==
    \/ \E shape \in TxShapes, p \in Products, q \in QtyInputs :
            CreateInventoryTransaction(shape, p, q)
    \/ \E p \in Products, l \in Locations, q \in QtyInputs :
            UpdateInventoryQuantity(p, l, q)
    \/ \E type \in SessionTypes, l \in Locations : CreateSession(type, l)
    \/ \E sid \in SessionIds, p \in Products, q \in QtyInputs :
            AddProductToSession(sid, p, q)
    \/ \E sid \in SessionIds : CompleteSession(sid)
    \/ \E sid \in SessionIds : CancelSession(sid)

Spec == Init /\ [][Next]_vars

\* The same handlers when every request is well formed: a positive quantity
\* to move, a count that is not negative.
NextWellFormed ==
    \/ \E shape \in TxShapes, p \in Products, q \in PositiveQty :
            CreateInventoryTransaction(shape, p, q)
    \/ \E p \in Products, l \in Locations, q \in CountedQty :
            UpdateInventoryQuantity(p, l, q)
    \/ \E type \in SessionTypes, l \in Locations : CreateSession(type, l)
    \/ \E sid \in SessionIds, p \in Products, q \in PositiveQty :
            AddProductToSession(sid, p, q)
    \/ \E sid \in SessionIds : CompleteSession(sid)
    \/ \E sid \in SessionIds : CancelSession(sid)

SpecWellFormed == Init /\ [][NextWellFormed]_vars
\* The session engine on its own, under well-formed requests: sessions are
\* opened, filled, completed and cancelled over the seeded stock.
NextSession ==
    \/ \E type \in SessionTypes, l \in Locations : CreateSession(type, l)
    \/ \E sid \in SessionIds, p \in Products, q \in PositiveQty :
            AddProductToSession(sid, p, q)
    \/ \E sid \in SessionIds : CompleteSession(sid)
    \/ \E sid \in SessionIds : CancelSession(sid)

SpecSession == Init /\ [][NextSession]_vars

----------------------------------------------------------------------------
(* JSON text.  A string is the sequence of its characters, a JSON text the  *)
(* sequence of the characters JSON.stringify writes and JSON.parse reads.   *)
(* A value is tagged with its type; an object is the sequence of its        *)
(* members <<key, value>> in insertion order.                               *)

JsString(chars) == <<"string", chars>>
JsNumber(n) == <<"number", n>>
JsNull == <<"null">>
JsTrue == <<"true">>
JsObject(members) == <<"object", members>>

DigitChars == <<"0", "1", "2", "3", "4", "5", "6", "7", "8", "9">>

RECURSIVE digitsOf(_)
digitsOf(n) ==
    IF n < 10 THEN <<DigitChars[n + 1]>>
    ELSE digitsOf(n \div 10) \o <<DigitChars[(n % 10) + 1]>>

RECURSIVE escapeChars(_)
escapeChars(chars) ==
    IF chars = <<>> THEN <<>>
    ELSE (IF Head(chars) \in {"\"", "\\"} THEN <<"\\", Head(chars)>>
          ELSE <<Head(chars)>>) \o escapeChars(Tail(chars))

quote(chars) == <<"\"">> \o escapeChars(chars) \o <<"\"">>

RECURSIVE stringify(_)
RECURSIVE stringifyMembers(_)

\* Faulty variant: members whose value is null are left out, the way
\* members without a value are.
stringifyMembers_SkipNull(members) ==
    IF members = <<>> THEN <<>>
    ELSE LET rest == stringifyMembers(Tail(members))
         IN  IF Head(members)[2] = JsNull THEN rest
             ELSE quote(Head(members)[1]) \o <<":">> \o stringify(Head(members)[2])
                  \o (IF rest = <<>> THEN <<>> ELSE <<",">> \o rest)

stringifyMembers(members) ==
    IF members = <<>> THEN <<>>
    ELSE quote(Head(members)[1]) \o <<":">> \o stringify(Head(members)[2])
         \o (IF Tail(members) = <<>> THEN <<>>
             ELSE <<",">> \o stringifyMembers(Tail(members)))

\* JSON.stringify
stringify(value) ==
    IF value[1] = "string" THEN quote(value[2])
    ELSE IF value[1] = "number"
    THEN (IF value[2] < 0 THEN <<"-">> \o digitsOf(0 - value[2]) ELSE digitsOf(value[2]))
    ELSE IF value[1] = "null" THEN <<"n", "u", "l", "l">>
    ELSE IF value[1] = "true" THEN <<"t", "r", "u", "e">>
    ELSE <<"{">> \o stringifyMembers(value[2]) \o <<"}">>

At(text, i) == IF i \in DOMAIN text THEN text[i] ELSE "EOF"
Parsed(value, next) == [ok |-> TRUE, value |-> value, next |-> next]
SyntaxError == [ok |-> FALSE, value |-> JsNull, next |-> 0]

\* The characters of a string literal from position i to its closing quote.
RECURSIVE parseChars(_, _, _)
parseChars(text, i, chars) ==
    IF At(text, i) = "EOF" THEN SyntaxError
    ELSE IF text[i] = "\"" THEN Parsed(chars, i + 1)
    ELSE IF text[i] = "\\"
    THEN (IF At(text, i + 1) = "EOF" THEN SyntaxError
          ELSE parseChars(text, i + 2, Append(chars, text[i + 1])))
    ELSE parseChars(text, i + 1, Append(chars, text[i]))

digitValue(char) == CHOOSE d \in 0..9 : DigitChars[d + 1] = char
IsDigit(char) == \E d \in 0..9 : DigitChars[d + 1] = char

RECURSIVE parseDigits(_, _, _)
parseDigits(text, i, n) ==
    IF IsDigit(At(text, i)) THEN parseDigits(text, i + 1, 10 * n + digitValue(text[i]))
    ELSE Parsed(n, i)

parseNumber(text, i) ==
    IF text[i] = "-"
    THEN (IF IsDigit(At(text, i + 1))
          THEN LET r == parseDigits(text, i + 1, 0)
               IN  Parsed(JsNumber(0 - r.value), r.next)
          ELSE SyntaxError)
    ELSE LET r == parseDigits(text, i, 0) IN Parsed(JsNumber(r.value), r.next)

Literal(text, i, word) ==
    i + Len(word) - 1 <= Len(text) /\ SubSeq(text, i, i + Len(word) - 1) = word

RECURSIVE parseValue(_, _)
RECURSIVE parseMembers(_, _, _)

parseMembers(text, i, members) ==
    IF At(text, i) # "\"" THEN SyntaxError
    ELSE LET key == parseChars(text, i + 1, <<>>)
         IN  IF ~key.ok \/ At(text, key.next) # ":" THEN SyntaxError
             ELSE LET val == parseValue(text, key.next + 1)
                      parsed == Append(members, <<key.value, val.value>>)
                  IN  IF ~val.ok THEN SyntaxError
                      ELSE IF At(text, val.next) = ","
                      THEN parseMembers(text, val.next + 1, parsed)
                      ELSE IF At(text, val.next) = "}"
                      THEN Parsed(JsObject(parsed), val.next + 1)
                      ELSE SyntaxError

parseValue(text, i) ==
    LET char == At(text, i)
    IN  IF char = "\""
        THEN LET r == parseChars(text, i + 1, <<>>)
             IN  IF r.ok THEN Parsed(JsString(r.value), r.next) ELSE SyntaxError
        ELSE IF char = "-" \/ IsDigit(char) THEN parseNumber(text, i)
        ELSE IF Literal(text, i, <<"n", "u", "l", "l">>) THEN Parsed(JsNull, i + 4)
        ELSE IF Literal(text, i, <<"t", "r", "u", "e">>) THEN Parsed(JsTrue, i + 4)
        ELSE IF char = "{"
        THEN (IF At(text, i + 1) = "}" THEN Parsed(JsObject(<<>>), i + 2)
              ELSE parseMembers(text, i + 1, <<>>))
        ELSE SyntaxError

\* JSON.parse: the value, or the SyntaxError it throws.
parse(text) ==
    LET r == parseValue(text, 1)
    IN  IF r.ok /\ r.next = Len(text) + 1 THEN r ELSE SyntaxError

----------------------------------------------------------------------------
(* The catalog handlers *)

\* The call made outside the inventory engine: its arguments, how it ended
\* and what it returned.
Request(op, args, outcome, returned) ==
    [op |-> op, args |-> args, outcome |-> outcome, returned |-> returned]

\* What a request to create a product carries.
ProductInputs ==
    {[barcode |-> b, category_id |-> "cat-002", unit_price |-> 20, unit_cost |-> 12,
      minimum_stock |-> 1] : b \in Barcodes}

\* The productData of an update: any subset of the columns.
NoColumns == [k \in {} |-> NULL]
BarcodeUpdates == {[barcode |-> b] : b \in Barcodes} \cup {NoColumns}
StockUpdates ==
    {[minimum_stock |-> 1], [category_id |-> NULL]}

CatalogIds == DOMAIN SeedProducts \cup {GeneratedProductIds[i] : i \in DOMAIN GeneratedProductIds}

CreateProduct(data) ==
    LET r == createProduct(products, data)
    IN  /\ r.outcome = "ok" => Cardinality(DOMAIN products) < MaxProducts
        /\ products' = r.products
        /\ last' = Request("createProduct", [data |-> data], r.outcome, r.id)
        /\ UNCHANGED <<inventory, ledger, sessions, users, reports, audit_logs,
                       requests, pagination>>

UpdateProduct(id, data) ==
    LET r == updateProduct(products, id, data)
    IN  /\ products' = r.products
        /\ last' = Request("updateProduct", [data |-> data, id |-> id], r.outcome, NULL)
        /\ UNCHANGED <<inventory, ledger, sessions, users, reports, audit_logs,
                       requests, pagination>>

DeleteProduct(id) ==
    LET r == deleteProduct(products, id)
    IN  /\ products' = r.products
        /\ last' = Request("deleteProduct", [id |-> id], r.outcome, NULL)
        /\ UNCHANGED <<inventory, ledger, sessions, users, reports, audit_logs,
                       requests, pagination>>

NextCatalog ==
    \/ \E data \in ProductInputs : CreateProduct(data)
    \/ \E id \in CatalogIds, data \in BarcodeUpdates : UpdateProduct(id, data)
    \/ \E id \in CatalogIds : DeleteProduct(id)

SpecCatalog == Init /\ [][NextCatalog]_vars

----------------------------------------------------------------------------
(* The stock queries and the valuation report *)

\* getInventory's default page size.
DefaultLimit == 100

RECURSIVE Sum(_, _)
Sum(S, f) ==
    IF S = {} THEN 0
    ELSE LET k == CHOOSE k \in S : TRUE IN f[k] + Sum(S \ {k}, f)

\* A nullable number of a result row: <<>> is SQL's NULL, <<n>> the number n.
NullNumber == <<>>
Coalesce(x) == IF x = NullNumber THEN 0 ELSE x[1]

\* SQL's SUM: NULL over no rows.
SqlSum(S, f) == IF S = {} THEN NullNumber ELSE <<Sum(S, f)>>

\* FROM inventory i JOIN products p ON i.product_id = p.id WHERE p.is_active = 1
activeRows(inv, prods) ==
    {k \in DOMAIN inv : k[1] \in DOMAIN prods /\ prods[k[1]].is_active = 1}

\* LIMIT ? OFFSET 0: at most limit rows of the ordered result.
firstRows(rows, limit) ==
    IF Cardinality(rows) <= limit THEN rows
    ELSE CHOOSE page \in SUBSET rows : Cardinality(page) = limit

\* getInventory(db, { lowStock }) with the default limit and offset; the rows
\* are named by their (product, location) pair.
getInventory(inv, prods, lowStock) ==
    firstRows({k \in activeRows(inv, prods) :
                  lowStock => inv[k] <= prods[k[1]].minimum_stock},
              DefaultLimit)

\* Faulty variant: a pair at its minimum is not reported.
getLowStockReport_StrictlyBelow(inv, prods) ==
    LET items == {k \in activeRows(inv, prods) : inv[k] < prods[k[1]].minimum_stock}
    IN  [items |-> items, count |-> Cardinality(items)]

\* getLowStockReport(db) without filters.
getLowStockReport(inv, prods) ==
    LET items == {k \in activeRows(inv, prods) : inv[k] <= prods[k[1]].minimum_stock}
    IN  [items |-> items, count |-> Cardinality(items)]

\* The rows of a category: JOIN categories c ON p.category_id = c.id ... GROUP BY c.id
categoryRows(inv, prods, c) ==
    {k \in activeRows(inv, prods) : prods[k[1]].category_id = c}

quantityOf(inv) == [k \in DOMAIN inv |-> inv[k]]
valueOf(inv, prods) == [k \in DOMAIN inv |-> inv[k] * prods[k[1]].unit_price]
costOf(inv, prods) == [k \in DOMAIN inv |-> inv[k] * prods[k[1]].unit_cost]

getInventorySummary(inv, prods) ==
    LET rows == activeRows(inv, prods)
        total_bottles == SqlSum(rows, quantityOf(inv))
        total_value == SqlSum(rows, valueOf(inv, prods))
        grouped == {c \in Categories : categoryRows(inv, prods, c) # {}}
    IN  [total_bottles |-> Coalesce(total_bottles),
         total_value |-> Coalesce(total_value),
         categories |-> [c \in grouped |->
             [total_bottles |-> SqlSum(categoryRows(inv, prods, c), quantityOf(inv)),
              total_value |-> SqlSum(categoryRows(inv, prods, c), valueOf(inv, prods))]],
         low_stock_count |->
             Cardinality({k \in rows : inv[k] <= prods[k[1]].minimum_stock})]

\* getInventoryValuationReport(db) without filters: one row per category
\* that has joined rows, and the summary over all rows of active products.
getInventoryValuationReport(inv, prods) ==
    LET rows == activeRows(inv, prods)
        grouped == {c \in Categories : categoryRows(inv, prods, c) # {}}
    IN  [categories |-> [c \in grouped |->
             [total_quantity |-> SqlSum(categoryRows(inv, prods, c), quantityOf(inv)),
              total_value |-> SqlSum(categoryRows(inv, prods, c), valueOf(inv, prods)),
              total_cost |-> SqlSum(categoryRows(inv, prods, c), costOf(inv, prods))]],
         summary |->
             [total_quantity |-> SqlSum(rows, quantityOf(inv)),
              total_value |-> SqlSum(rows, valueOf(inv, prods)),
              total_cost |-> SqlSum(rows, costOf(inv, prods))]]

\* The queries write nothing; what they return is kept with the call.
GetInventory(lowStock) ==
    /\ last' = Request("getInventory", [lowStock |-> lowStock], "ok",
                       getInventory(inventory, products, lowStock))
    /\ UNCHANGED <<inventory, ledger, sessions, products, users, reports,
                   audit_logs, requests, pagination>>

GetLowStockReport ==
    /\ last' = Request("getLowStockReport", NULL, "ok",
                       getLowStockReport(inventory, products))
    /\ UNCHANGED <<inventory, ledger, sessions, products, users, reports,
                   audit_logs, requests, pagination>>

GetInventorySummary ==
    /\ last' = Request("getInventorySummary", NULL, "ok",
                       getInventorySummary(inventory, products))
    /\ UNCHANGED <<inventory, ledger, sessions, products, users, reports,
                   audit_logs, requests, pagination>>

GetInventoryValuationReport ==
    /\ last' = Request("getInventoryValuationReport", NULL, "ok",
                       getInventoryValuationReport(inventory, products))
    /\ UNCHANGED <<inventory, ledger, sessions, products, users, reports,
                   audit_logs, requests, pagination>>

\* The seeded stock is counted, products are edited and retired, and the
\* queries are asked in between.
NextReporting ==
    \/ \E k \in DOMAIN SeedInventory, q \in CountedQty :
            UpdateInventoryQuantity(k[1], k[2], q)
    \/ \E id \in Products, data \in StockUpdates : UpdateProduct(id, data)
    \/ \E id \in Products \cup {GeneratedProductIds[1]} : DeleteProduct(id)
    \/ \E lowStock \in BOOLEAN : GetInventory(lowStock)
    \/ GetLowStockReport
    \/ GetInventorySummary
    \/ GetInventoryValuationReport

SpecReporting == Init /\ [][NextReporting]_vars

----------------------------------------------------------------------------
(* The authentication handlers *)

\* No handler changes a user's active flag: an account is switched off in
\* the store itself, so the seeded administrator starts either way.
InitAuth ==
    /\ inventory = SeedInventory
    /\ ledger = <<>>
    /\ sessions = <<>>
    /\ last = Call("none", NULL, NULL, NULL, NULL, 0, NoSession, "ok")
    /\ products = SeedProducts
    /\ users \in {[SeedUsers EXCEPT !["admin"].active = a] : a \in {0, 1}}
    /\ reports = <<>>
    /\ audit_logs = <<>>
    /\ requests = NoRequests
    /\ pagination = NoPagination

AuthenticateUser(username, password) ==
    LET r == authenticateUser(users, username, password)
    IN  /\ users' = r.users
        /\ last' = Request("authenticateUser",
                           [username |-> username, password |-> password],
                           r.outcome, r.token)
        /\ UNCHANGED <<inventory, ledger, sessions, products, reports,
                       audit_logs, requests, pagination>>

CreateUser(username, password, role, salt) ==
    LET r == createUser(users, username, password, role, salt)
    IN  /\ users' = r.users
        /\ last' = Request("createUser",
                           [username |-> username, password |-> password],
                           r.outcome, r.id)
        /\ UNCHANGED <<inventory, ledger, sessions, products, reports,
                       audit_logs, requests, pagination>>

NextAuth ==
    \/ \E username \in Usernames, password \in Passwords :
            AuthenticateUser(username, password)
    \/ \E username \in Usernames, password \in Passwords, role \in Roles,
          salt \in Salts :
            CreateUser(username, password, role, salt)

SpecAuth == InitAuth /\ [][NextAuth]_vars

----------------------------------------------------------------------------
(* Saved reports *)

MaxReports == 1

\* The values reports.report_type may take, by the table's CHECK.
ReportTypeCheck == {"inventory", "transaction", "valuation", "custom"}
ReportTypeInputs == {"inventory", "low_stock"}

\* Parameter bags as a request's JSON body delivers them: objects of up to
\* two members whose values are JSON scalars, and one nested object.
ParameterKeys == {<<"l", "o", "c">>, <<"n">>}
ParameterValues ==
    {JsString(<<"a", "\"", "\\">>), JsNumber(-12), JsNull}
ParameterBags ==
    {JsObject(<<>>), JsObject(<<<<<<"f">>, JsObject(<<<<<<"n">>, JsTrue>>>>)>>>>)}
    \cup {JsObject(<<<<k, v>>>>) : k \in ParameterKeys, v \in ParameterValues}
    \cup {JsObject(<<<<k[1], v1>>, <<k[2], v2>>>>) :
             k \in {kk \in ParameterKeys \X ParameterKeys : kk[1] # kk[2]},
             v1 \in ParameterValues, v2 \in ParameterValues}

ReportInputs ==
    {[report_type |-> t, parameters |-> P] : t \in ReportTypeInputs, P \in ParameterBags}

Report(type, parameters, creator) ==
    [report_type |-> type, parameters |-> parameters, created_by |-> creator,
     is_active |-> 1, last_run |-> NULL]

\* The report handed to the caller: the row with its id, the parameters
\* parsed when the column holds text that parses, left as text otherwise.
parsedReport(reps, id) ==
    LET row == reps[id]
        decoded == parse(row.parameters)
    IN  [id |-> id, report_type |-> row.report_type, created_by |-> row.created_by,
         last_run |-> row.last_run,
         parameters |-> IF row.parameters # <<>> /\ decoded.ok
                        THEN <<"value", decoded.value>>
                        ELSE <<"text", row.parameters>>]

getReportById(reps, id) ==
    IF id \in DOMAIN reps THEN Some(parsedReport(reps, id)) ELSE None

saveReport(reps, data, userId) ==
    IF data.report_type \notin ReportTypeCheck
    THEN [reports |-> reps, outcome |-> "CheckConstraint", report |-> None]
    ELSE LET saved == Append(reps, Report(data.report_type,
                                          stringify(data.parameters), userId))
         IN  [reports |-> saved, outcome |-> "ok",
              report |-> getReportById(saved, Len(saved))]

\* The ids of the active reports passing the filters, newest first.
RECURSIVE newestFirst(_, _)
newestFirst(reps, wanted) ==
    IF reps = <<>> THEN <<>>
    ELSE (IF Len(reps) \in wanted THEN <<Len(reps)>> ELSE <<>>)
         \o newestFirst(SubSeq(reps, 1, Len(reps) - 1), wanted)

getSavedReports(reps, filters) ==
    LET wanted == {i \in DOMAIN reps :
                      /\ reps[i].is_active = 1
                      /\ filters.report_type # NULL
                            => reps[i].report_type = filters.report_type
                      /\ filters.userId # NULL
                            => reps[i].created_by = filters.userId}
        ids == newestFirst(reps, wanted)
    IN  [i \in DOMAIN ids |-> parsedReport(reps, ids[i])]

ReportFilters ==
    {[report_type |-> t, userId |-> u] :
        t \in {NULL, "inventory"}, u \in {NULL, "admin-001"}}

ReportIds == 1..MaxReports

SaveReport(data) ==
    LET r == saveReport(reports, data, "admin-001")
    IN  /\ r.outcome = "ok" => Len(reports) < MaxReports
        /\ reports' = r.reports
        /\ last' = Request("saveReport", [data |-> data], r.outcome, r.report)
        /\ UNCHANGED <<inventory, ledger, sessions, products, users,
                       audit_logs, requests, pagination>>

GetReportById(id) ==
    /\ last' = Request("getReportById", [id |-> id], "ok", getReportById(reports, id))
    /\ UNCHANGED <<inventory, ledger, sessions, products, users, reports,
                   audit_logs, requests, pagination>>

GetSavedReports(filters) ==
    /\ last' = Request("getSavedReports", [filters |-> filters], "ok",
                       getSavedReports(reports, filters))
    /\ UNCHANGED <<inventory, ledger, sessions, products, users, reports,
                   audit_logs, requests, pagination>>

NextReports ==
    \/ \E data \in ReportInputs : SaveReport(data)
    \/ \E id \in ReportIds : GetReportById(id)
    \/ \E filters \in ReportFilters : GetSavedReports(filters)

SpecReports == Init /\ [][NextReports]_vars

----------------------------------------------------------------------------
(* The HTTP handlers that write.  Each one reads the Authorization header,  *)
(* calls the library function and then awaits createAuditLog inside the     *)
(* same try block; a rejected promise of either ends in the catch (500).    *)

MaxAuditLogs == 2

Header(scheme, token) == [scheme |-> scheme, token |-> token]
ValidToken == generateToken(SeedUsers["admin"], "admin")
ExpiredToken == [ValidToken EXCEPT !.expired = TRUE]

\* request.headers.get('Authorization'): absent, another scheme, or Bearer.
AuthorizationHeaders ==
    {None, Some(Header("Basic", ValidToken)), Some(Header("Bearer", ExpiredToken)),
     Some(Header("Bearer", ValidToken))}

\* The check every guarded handler opens with.
authorize(authHeader) ==
    IF authHeader = None \/ authHeader[1].scheme # "Bearer"
    THEN [status |-> 401, error |-> "Unauthorized", user |-> None]
    ELSE LET user == verifyToken(authHeader[1].token)
         IN  IF user = None
             THEN [status |-> 401, error |-> "Invalid token", user |-> None]
             ELSE [status |-> 200, error |-> "ok", user |-> user]

AuditLog(userId, action, entityType, entityId) ==
    [user_id |-> userId, action |-> action, entity_type |-> entityType,
     entity_id |-> entityId]

\* createAuditLog returns the promise of its INSERT; fails is whether the
\* storage rejects it.
createAuditLog(logs, userId, action, entityType, entityId, fails) ==
    IF fails
    THEN [audit_logs |-> logs, outcome |-> "StorageError"]
    ELSE [audit_logs |-> Append(logs, AuditLog(userId, action, entityType, entityId)),
          outcome |-> "ok"]

\* The answer of a handler whose library call returned mutated: the audit
\* log is awaited in the try block, its rejection is caught like any other.
respond(audit, success) ==
    IF audit.outcome = "ok" THEN [status |-> success, error |-> "ok"]
    ELSE [status |-> 500, error |-> audit.outcome]

HttpRequest(op, authHeader, auditFails, response) ==
    Request(op, [authHeader |-> authHeader, auditFails |-> auditFails],
            response.error, response.status)

Denied(op, authHeader, auditFails) ==
    /\ last' = HttpRequest(op, authHeader, auditFails, authorize(authHeader))
    /\ UNCHANGED <<inventory, ledger, sessions, outside>>

PostProducts(authHeader, data, auditFails) ==
    LET auth == authorize(authHeader)
    IN  IF auth.user = None THEN Denied("POST products", authHeader, auditFails)
        ELSE LET r == createProduct(products, data)
                 audit == createAuditLog(audit_logs, auth.user[1].id, "create",
                                         "product", r.id, auditFails)
             IN  /\ Len(audit_logs) < MaxAuditLogs
                 /\ r.outcome = "ok" => Cardinality(DOMAIN products) < MaxProducts
                 /\ products' = r.products
                 /\ audit_logs' = IF r.outcome = "ok" THEN audit.audit_logs
                                  ELSE audit_logs
                 /\ last' = HttpRequest("POST products", authHeader, auditFails,
                                IF r.outcome = "ok" THEN respond(audit, 201)
                                ELSE [status |-> 500, error |-> r.outcome])
                 /\ UNCHANGED <<inventory, ledger, sessions, users, reports, requests,
                   pagination>>

\* createSession: the INSERT INTO sessions, which the table's CHECK on
\* session_type rejects for a value outside the three it lists.
createSession(sess, type, l) ==
    IF type \notin SessionTypes
    THEN [sessions |-> sess, outcome |-> "CheckConstraint"]
    ELSE [sessions |-> Append(sess, Session(type, "in_progress", l, NULL)),
          outcome |-> "ok"]

PostSessions(authHeader, type, l, auditFails) ==
    LET auth == authorize(authHeader)
    IN  IF auth.user = None THEN Denied("POST sessions", authHeader, auditFails)
        ELSE LET r == createSession(sessions, type, l)
                 audit == createAuditLog(audit_logs, auth.user[1].id, "create",
                                         "session", Len(sessions) + 1, auditFails)
             IN  /\ Len(audit_logs) < MaxAuditLogs
                 /\ r.outcome = "ok" => Len(sessions) < MaxSessions
                 /\ sessions' = r.sessions
                 /\ audit_logs' = IF r.outcome = "ok" THEN audit.audit_logs
                                  ELSE audit_logs
                 /\ last' = HttpRequest("POST sessions", authHeader, auditFails,
                                IF r.outcome = "ok" THEN respond(audit, 201)
                                ELSE [status |-> 500, error |-> r.outcome])
                 /\ UNCHANGED <<inventory, ledger, products, users, reports, requests,
                   pagination>>

PostInventory(authHeader, p, l, quantity, auditFails) ==
    LET auth == authorize(authHeader)
    IN  IF auth.user = None THEN Denied("POST inventory", authHeader, auditFails)
        ELSE LET r == updateInventoryQuantity(inventory, ledger, p, l, quantity)
                 audit == createAuditLog(audit_logs, auth.user[1].id, "update",
                                         "inventory", <<p, l>>, auditFails)
             IN  /\ Len(audit_logs) < MaxAuditLogs
                 /\ Len(ledger) < MaxLedger
                 /\ inventory' = r.inv
                 /\ ledger' = r.led
                 /\ audit_logs' = IF r.outcome = "ok" THEN audit.audit_logs
                                  ELSE audit_logs
                 /\ last' = HttpRequest("POST inventory", authHeader, auditFails,
                                IF r.outcome = "ok" THEN respond(audit, 200)
                                ELSE [status |-> 500, error |-> r.outcome])
                 /\ UNCHANGED <<sessions, products, users, reports, requests,
                   pagination>>

PostReports(authHeader, data, auditFails) ==
    LET auth == authorize(authHeader)
    IN  IF auth.user = None THEN Denied("POST reports", authHeader, auditFails)
        ELSE LET r == saveReport(reports, data, auth.user[1].id)
                 audit == createAuditLog(audit_logs, auth.user[1].id, "create",
                                         "report", Len(reports) + 1, auditFails)
             IN  /\ Len(audit_logs) < MaxAuditLogs
                 /\ r.outcome = "ok" => Len(reports) < MaxReports
                 /\ reports' = r.reports
                 /\ audit_logs' = IF r.outcome = "ok" THEN audit.audit_logs
                                  ELSE audit_logs
                 /\ last' = HttpRequest("POST reports", authHeader, auditFails,
                                IF r.outcome = "ok" THEN respond(audit, 201)
                                ELSE [status |-> 500, error |-> r.outcome])
                 /\ UNCHANGED <<inventory, ledger, sessions, products, users, requests,
                   pagination>>

\* POST auth/register reads no Authorization header; the one the request
\* carries is kept in the record of the call only.
PostRegister(authHeader, username, password, role, salt, auditFails) ==
    LET r == createUser(users, username, password, role, salt)
        audit == createAuditLog(audit_logs, r.id, "register", "user", r.id,
                                auditFails)
    IN  /\ Len(audit_logs) < MaxAuditLogs
        /\ users' = r.users
        /\ audit_logs' = IF r.outcome = "ok" THEN audit.audit_logs ELSE audit_logs
        /\ last' = HttpRequest("POST auth/register", authHeader, auditFails,
                       IF r.outcome = "ok" THEN respond(audit, 201)
                       ELSE [status |-> 500, error |-> r.outcome])
        /\ UNCHANGED <<inventory, ledger, sessions, products, reports, requests,
                   pagination>>

\* The bodies the requests carry.
HttpProductInputs == {data \in ProductInputs : data.barcode = "NEW123456"}
HttpReportInputs ==
    {data \in ReportInputs : data.parameters = JsObject(<<>>)}

NextHttp ==
    \/ \E h \in AuthorizationHeaders, data \in HttpProductInputs, f \in BOOLEAN :
            PostProducts(h, data, f)
    \/ \E h \in AuthorizationHeaders, f \in BOOLEAN :
            PostSessions(h, "check_in", "loc-001", f)
    \/ \E h \in AuthorizationHeaders, q \in PositiveQty, f \in BOOLEAN :
            PostInventory(h, "prod-001", "loc-001", q, f)
    \/ \E h \in AuthorizationHeaders, data \in HttpReportInputs, f \in BOOLEAN :
            PostReports(h, data, f)
    \/ \E h \in AuthorizationHeaders, role \in {"admin", "staff"}, f \in BOOLEAN :
            PostRegister(h, "clerk", "admin-password", role, "salt-a", f)

SpecHttp == Init /\ [][NextHttp]_vars

----------------------------------------------------------------------------
(* Requests in flight.  The session functions run no database transaction:  *)
(* every await is a point where another request's statement may run.  A     *)
(* request is the position of one call: the statement it executes next and  *)
(* what it has read so far.  The getSessionById that ends completeSession   *)
(* and cancelSession only reads and is part of the last step.               *)

MaxRequests == 3

InFlight(op, sid, pc, p, q, outcome) ==
    [op |-> op, sid |-> sid, pc |-> pc, product_id |-> p, quantity |-> q,
     transactions |-> <<>>, reversed |-> 0, outcome |-> outcome]

\* const session = await getSessionById(db, sessionId), and the two checks
\* that follow it: where the request stands after them.
getSession(sess, op, sid, p, q, next) ==
    IF sid \notin DOMAIN sess
    THEN InFlight(op, sid, "failed", p, q, "NotFound")
    ELSE IF sess[sid].status # "in_progress"
    THEN InFlight(op, sid, "failed", p, q, "InvalidState")
    ELSE InFlight(op, sid, next, p, q, "pending")

\* The ids of the rows SELECT ... WHERE t.session_id = sid ORDER BY
\* t.created_at DESC returns, looking at the rows from the i-th back.
RECURSIVE sessionTransactionIds(_, _, _)
sessionTransactionIds(led, sid, i) ==
    IF i = 0 THEN <<>>
    ELSE (IF led[i].session_id = sid THEN <<i>> ELSE <<>>)
         \o sessionTransactionIds(led, sid, i - 1)

At_pc(r, pc) == r \in DOMAIN requests /\ requests[r].pc = pc

AddProductToSession_getSession(sid, p, q) ==
    /\ Len(requests) < MaxRequests
    /\ requests' = Append(requests, getSession(sessions, "addProductToSession",
                                               sid, p, q, "createTransaction"))
    /\ UNCHANGED <<inventory, ledger, sessions, last, products, users, reports,
                   audit_logs, pagination>>

AddProductToSession_createTransaction(r) ==
    /\ At_pc(r, "createTransaction")
    /\ Len(ledger) < MaxLedger
    /\ LET sid == requests[r].sid
           row == sessionTransaction(sessions[sid], sid, requests[r].product_id,
                                     requests[r].quantity)
           res == createInventoryTransaction(inventory, ledger, row)
       IN  /\ inventory' = res.inv
           /\ ledger' = res.led
           /\ requests' = [requests EXCEPT
                              ![r].pc = IF res.outcome = "ok" THEN "done" ELSE "failed",
                              ![r].outcome = res.outcome]
    /\ UNCHANGED <<sessions, last, products, users, reports, audit_logs,
                   pagination>>

CompleteSession_getSession(sid) ==
    /\ Len(requests) < MaxRequests
    /\ requests' = Append(requests, getSession(sessions, "completeSession",
                                               sid, NULL, 0, "updateSession"))
    /\ UNCHANGED <<inventory, ledger, sessions, last, products, users, reports,
                   audit_logs, pagination>>

\* UPDATE sessions SET status = 'completed' ... WHERE id = ?
CompleteSession_updateSession(r) ==
    /\ At_pc(r, "updateSession")
    /\ requests[r].op = "completeSession"
    /\ sessions' = [sessions EXCEPT ![requests[r].sid].status = "completed",
                                    ![requests[r].sid].completed_at = "CURRENT_TIMESTAMP"]
    /\ requests' = [requests EXCEPT ![r].pc = "done", ![r].outcome = "ok"]
    /\ UNCHANGED <<inventory, ledger, last, products, users, reports, audit_logs,
                   pagination>>

CancelSession_getSession(sid) ==
    /\ Len(requests) < MaxRequests
    /\ requests' = Append(requests, getSession(sessions, "cancelSession",
                                               sid, NULL, 0, "getSessionTransactions"))
    /\ UNCHANGED <<inventory, ledger, sessions, last, products, users, reports,
                   audit_logs, pagination>>

CancelSession_getSessionTransactions(r) ==
    /\ At_pc(r, "getSessionTransactions")
    /\ requests' = [requests EXCEPT
                       ![r].transactions = sessionTransactionIds(ledger, requests[r].sid,
                                                              Len(ledger)),
                       ![r].pc = "reverse"]
    /\ UNCHANGED <<inventory, ledger, sessions, last, products, users, reports,
                   audit_logs, pagination>>

\* One turn of the loop: the UPDATE inventory of the next transaction read.
CancelSession_reverse(r) ==
    /\ At_pc(r, "reverse")
    /\ requests[r].reversed < Len(requests[r].transactions)
    /\ LET t == ledger[requests[r].transactions[requests[r].reversed + 1]]
       IN  inventory' = reverseTransaction(inventory, t)
    /\ requests' = [requests EXCEPT ![r].reversed = @ + 1]
    /\ UNCHANGED <<ledger, sessions, last, products, users, reports, audit_logs,
                   pagination>>

\* UPDATE sessions SET status = 'cancelled' ... WHERE id = ?, after the loop.
CancelSession_updateSession(r) ==
    /\ At_pc(r, "reverse")
    /\ requests[r].reversed = Len(requests[r].transactions)
    /\ sessions' = [sessions EXCEPT ![requests[r].sid].status = "cancelled",
                                    ![requests[r].sid].completed_at = "CURRENT_TIMESTAMP"]
    /\ requests' = [requests EXCEPT ![r].pc = "done", ![r].outcome = "ok"]
    /\ UNCHANGED <<inventory, ledger, last, products, users, reports, audit_logs,
                   pagination>>

\* executeQuery rethrows what the storage reports: the statement a
\* cancelSession is about to run fails and the call ends there.
CancelSession_statementFails(r) ==
    /\ r \in DOMAIN requests
    /\ requests[r].op = "cancelSession"
    /\ requests[r].pc \in {"getSessionTransactions", "reverse"}
    /\ requests' = [requests EXCEPT ![r].pc = "failed", ![r].outcome = "StorageError"]
    /\ UNCHANGED <<inventory, ledger, sessions, last, products, users, reports,
                   audit_logs, pagination>>

RequestIds == 1..MaxRequests

NextConcurrent ==
    \/ \E type \in {"check_in", "check_out"} : CreateSession(type, "loc-001")
    \/ \E sid \in SessionIds, q \in PositiveQty :
            AddProductToSession_getSession(sid, "prod-001", q)
    \/ \E r \in RequestIds : AddProductToSession_createTransaction(r)
    \/ \E sid \in SessionIds : CompleteSession_getSession(sid)
    \/ \E r \in RequestIds : CompleteSession_updateSession(r)
    \/ \E sid \in SessionIds : CancelSession_getSession(sid)
    \/ \E r \in RequestIds : CancelSession_getSessionTransactions(r)
    \/ \E r \in RequestIds : CancelSession_reverse(r)
    \/ \E r \in RequestIds : CancelSession_updateSession(r)
    \/ \E r \in RequestIds : CancelSession_statementFails(r)

SpecConcurrent == Init /\ [][NextConcurrent]_vars

----------------------------------------------------------------------------
(* One session over the seeded stock, with check-outs that the stock covers *)
(* and check-outs that it does not.                                         *)

\* Quantities to check out: SeedQtyCab covers the first once, the second never.
CheckOutQty == {7, 13}

NextCheckOut ==
    \/ \E type \in {"check_out", "inventory_count"}, l \in Locations :
            CreateSession(type, l)
    \/ \E sid \in SessionIds, p \in Products, q \in CheckOutQty :
            AddProductToSession(sid, p, q)
    \/ \E sid \in SessionIds : CompleteSession(sid)
    \/ \E sid \in SessionIds : CancelSession(sid)

SpecCheckOut == Init /\ [][NextCheckOut]_vars

----------------------------------------------------------------------------
(* Transfers between the locations, over stock that counts have set.        *)

NextTransfer ==
    \/ \E shape \in {t \in TxShapes : t.type = "transfer"}, p \in Products,
          q \in QtyInputs :
            CreateInventoryTransaction(shape, p, q)
    \/ \E k \in DOMAIN SeedInventory, q \in CountedQty :
            UpdateInventoryQuantity(k[1], k[2], q)

SpecTransfer == Init /\ [][NextTransfer]_vars

----------------------------------------------------------------------------
(* The Check-In page: its createSession posts the session to /api/sessions  *)
(* with the token of the signed-in user; products are then added to the     *)
(* session it opened.  Stock counts go on meanwhile.                        *)

\* body: JSON.stringify({ session_type: 'check-in', ... })
CheckInPageSessionType == "check-in"

NextCheckInPage ==
    \/ \E h \in {Some(Header("Bearer", ValidToken)), Some(Header("Bearer", ExpiredToken))},
          l \in Locations, f \in BOOLEAN :
            PostSessions(h, CheckInPageSessionType, l, f)
    \/ \E sid \in SessionIds, p \in Products, q \in PositiveQty :
            AddProductToSession(sid, p, q)
    \/ \E k \in DOMAIN SeedInventory, q \in CountedQty :
            UpdateInventoryQuantity(k[1], k[2], q)

SpecCheckInPage == Init /\ [][NextCheckInPage]_vars

----------------------------------------------------------------------------
(* Running saved reports *)

\* runSavedReport: the report is read, last_run is written, then the report
\* is generated according to its type.
runSavedReport(reps, inv, led, prods, id) ==
    IF getReportById(reps, id) = None
    THEN [reports |-> reps, outcome |-> "NotFound", result |-> None]
    ELSE LET ran == [reps EXCEPT ![id].last_run = "CURRENT_TIMESTAMP"]
             type == reps[id].report_type
         IN  IF type \in {"inventory", "valuation"}
             THEN [reports |-> ran, outcome |-> "ok",
                   result |-> Some(getInventoryValuationReport(inv, prods))]
             ELSE IF type = "transaction"
             THEN [reports |-> ran, outcome |-> "ok", result |-> Some(led)]
             ELSE [reports |-> ran, outcome |-> "Unsupported", result |-> None]

RunSavedReport(id) ==
    LET r == runSavedReport(reports, inventory, ledger, products, id)
    IN  /\ reports' = r.reports
        /\ last' = Request("runSavedReport", [id |-> id], r.outcome, r.result)
        /\ UNCHANGED <<inventory, ledger, sessions, products, users,
                       audit_logs, requests, pagination>>

\* Reports of every type the table's CHECK admits.
RunReportInputs ==
    {[report_type |-> t, parameters |-> P] :
        t \in ReportTypeCheck, P \in {JsObject(<<>>), JsObject(<<<<<<"n">>, JsNull>>>>)}}

NextRunReports ==
    \/ \E data \in RunReportInputs : SaveReport(data)
    \/ \E id \in ReportIds \cup {MaxReports + 1} : RunSavedReport(id)
    \/ \E id \in ReportIds : GetReportById(id)
    \/ \E k \in DOMAIN SeedInventory, q \in CountedQty :
            UpdateInventoryQuantity(k[1], k[2], q)

SpecRunReports == Init /\ [][NextRunReports]_vars

----------------------------------------------------------------------------
(* The pagination controls of a list *)

\* The page sizes and the pages asked for.
PageSizes == {1, 2, 3, DefaultItemsPerPage}
PageInputs == (0 - 2)..(MaxItems + 2)

\* A list of any length up to MaxItems is rendered with one of the page
\* sizes; the hook starts on page 1.
InitPagination ==
    /\ inventory = SeedInventory
    /\ ledger = <<>>
    /\ sessions = <<>>
    /\ last = Call("none", NULL, NULL, NULL, NULL, 0, NoSession, "ok")
    /\ products = SeedProducts
    /\ users = SeedUsers
    /\ reports = <<>>
    /\ audit_logs = <<>>
    /\ requests = NoRequests
    /\ pagination \in {Pager(n, size, 1) : n \in 0..MaxItems, size \in PageSizes}

GoToPage(page) ==
    /\ pagination' = goToPage(pagination, page)
    /\ last' = Request("goToPage", [page |-> page], "ok", usePagination(pagination'))
    /\ UNCHANGED <<inventory, ledger, sessions, products, users, reports,
                   audit_logs, requests>>

NextPage ==
    /\ pagination' = nextPage(pagination)
    /\ last' = Request("nextPage", NULL, "ok", usePagination(pagination'))
    /\ UNCHANGED <<inventory, ledger, sessions, products, users, reports,
                   audit_logs, requests>>

PrevPage ==
    /\ pagination' = prevPage(pagination)
    /\ last' = Request("prevPage", NULL, "ok", usePagination(pagination'))
    /\ UNCHANGED <<inventory, ledger, sessions, products, users, reports,
                   audit_logs, requests>>

NextPagination ==
    \/ \E page \in PageInputs : GoToPage(page)
    \/ NextPage
    \/ PrevPage

SpecPagination == InitPagination /\ [][NextPagination]_vars

----------------------------------------------------------------------------
(* Concurrent check-ins and check-outs.  createInventoryTransaction inserts *)
(* the ledger row, then updateInventoryForCheckIn / updateInventoryFor-     *)
(* CheckOut reads the inventory row and writes it in a second statement.    *)
(* A request keeps the id of the ledger row it inserted; what it moves and  *)
(* where is read from that row.                                             *)

Moved(r) == ledger[requests[r].transactions[1]]
MovedPair(r) ==
    <<Moved(r).product_id,
      IF Moved(r).transaction_type = "check_in"
      THEN Moved(r).destination_location_id ELSE Moved(r).source_location_id>>

\* INSERT INTO inventory_transactions, the first statement of the call.
CreateInventoryTransaction_insert(shape, p, q) ==
    /\ Len(requests) < MaxRequests
    /\ Len(ledger) < MaxLedger
    /\ ledger' = Append(ledger, Row(shape.type, p, shape.src, shape.dst, q, NoSession))
    /\ requests' = Append(requests,
                          [InFlight(shape.type, NoSession, "selectInventory", p, q,
                                    "pending")
                              EXCEPT !.transactions = <<Len(ledger) + 1>>])
    /\ UNCHANGED <<inventory, sessions, last, products, users, reports, audit_logs,
                   pagination>>

\* SELECT * FROM inventory ... and the two checks of updateInventoryForCheckOut.
UpdateInventoryForCheckOut_select(r) ==
    /\ At_pc(r, "selectInventory")
    /\ requests[r].op = "check_out"
    /\ requests' = [requests EXCEPT ![r] =
            IF MovedPair(r) \notin DOMAIN inventory
            THEN [@ EXCEPT !.pc = "failed", !.outcome = "NotFound"]
            ELSE IF inventory[MovedPair(r)] < requests[r].quantity
            THEN [@ EXCEPT !.pc = "failed", !.outcome = "InsufficientStock"]
            ELSE [@ EXCEPT !.pc = "updateInventory"]]
    /\ UNCHANGED <<inventory, ledger, sessions, last, products, users, reports,
                   audit_logs, pagination>>

\* Faulty variant: the UPDATE deducts only while the row still covers the
\* quantity.
UpdateInventoryForCheckOut_update_Guarded(r) ==
    /\ At_pc(r, "updateInventory")
    /\ requests[r].op = "check_out"
    /\ inventory' = IF inventory[MovedPair(r)] >= requests[r].quantity
                    THEN AddToRow(inventory, MovedPair(r)[1], MovedPair(r)[2],
                                  0 - requests[r].quantity)
                    ELSE inventory
    /\ requests' = [requests EXCEPT ![r].pc = "done", ![r].outcome = "ok"]
    /\ UNCHANGED <<ledger, sessions, last, products, users, reports, audit_logs,
                   pagination>>

\* UPDATE inventory SET quantity = quantity - ? WHERE product_id = ? AND location_id = ?
UpdateInventoryForCheckOut_update(r) ==
    /\ At_pc(r, "updateInventory")
    /\ requests[r].op = "check_out"
    /\ inventory' = AddToRow(inventory, MovedPair(r)[1], MovedPair(r)[2],
                             0 - requests[r].quantity)
    /\ requests' = [requests EXCEPT ![r].pc = "done", ![r].outcome = "ok"]
    /\ UNCHANGED <<ledger, sessions, last, products, users, reports, audit_logs,
                   pagination>>

\* SELECT * FROM inventory ... of updateInventoryForCheckIn: UPDATE or INSERT next.
UpdateInventoryForCheckIn_select(r) ==
    /\ At_pc(r, "selectInventory")
    /\ requests[r].op = "check_in"
    /\ requests' = [requests EXCEPT ![r].pc =
            IF MovedPair(r) \in DOMAIN inventory THEN "updateInventory"
            ELSE "insertInventory"]
    /\ UNCHANGED <<inventory, ledger, sessions, last, products, users, reports,
                   audit_logs, pagination>>

\* UPDATE inventory SET quantity = quantity + ? ...
UpdateInventoryForCheckIn_update(r) ==
    /\ At_pc(r, "updateInventory")
    /\ requests[r].op = "check_in"
    /\ inventory' = AddToRow(inventory, MovedPair(r)[1], MovedPair(r)[2],
                             requests[r].quantity)
    /\ requests' = [requests EXCEPT ![r].pc = "done", ![r].outcome = "ok"]
    /\ UNCHANGED <<ledger, sessions, last, products, users, reports, audit_logs,
                   pagination>>

\* INSERT INTO inventory ...: UNIQUE(product_id, location_id) rejects it when
\* the pair has got a row since the SELECT.
UpdateInventoryForCheckIn_insert(r) ==
    /\ At_pc(r, "insertInventory")
    /\ IF MovedPair(r) \in DOMAIN inventory
       THEN /\ requests' = [requests EXCEPT ![r].pc = "failed",
                                            ![r].outcome = "UniqueConstraint"]
            /\ UNCHANGED inventory
       ELSE /\ inventory' = InsertRow(inventory, MovedPair(r)[1], MovedPair(r)[2],
                                      requests[r].quantity)
            /\ requests' = [requests EXCEPT ![r].pc = "done", ![r].outcome = "ok"]
    /\ UNCHANGED <<ledger, sessions, last, products, users, reports, audit_logs,
                   pagination>>

\* Check-ins into and check-outs from the locations of the seeded cabernet.
RaceShapes == {t \in TxShapes : t.type \in {"check_in", "check_out"}}
RaceQty == PositiveQty \cup {7}

NextRace ==
    \/ \E shape \in RaceShapes, q \in RaceQty :
            CreateInventoryTransaction_insert(shape, "prod-001", q)
    \/ \E r \in RequestIds : UpdateInventoryForCheckOut_select(r)
    \/ \E r \in RequestIds : UpdateInventoryForCheckOut_update(r)
    \/ \E r \in RequestIds : UpdateInventoryForCheckIn_select(r)
    \/ \E r \in RequestIds : UpdateInventoryForCheckIn_update(r)
    \/ \E r \in RequestIds : UpdateInventoryForCheckIn_insert(r)

SpecRace == Init /\ [][NextRace]_vars

----------------------------------------------------------------------------
(* Vocabulary of the properties *)

\* The quantity held for a pair, 0 when it has no inventory row.
Quantity(inv, p, l) == IF HasRow(inv, p, l) THEN inv[<<p, l>>] ELSE 0

\* The stock the seed installs without ledger rows.
Opening(p, l) ==
    IF <<p, l>> = <<"prod-001", "loc-001">> THEN SeedQtyCab
    ELSE IF <<p, l>> = <<"prod-002", "loc-001">> THEN SeedQtyChard
    ELSE 0

\* The signed effect of one ledger row on a pair.
Signed(t, p, l) ==
    IF t.product_id # p THEN 0
    ELSE (IF t.destination_location_id = l THEN t.quantity ELSE 0)
         - (IF t.source_location_id = l THEN t.quantity ELSE 0)

RECURSIVE SignedSum(_, _, _)
SignedSum(led, p, l) ==
    IF led = <<>> THEN 0
    ELSE Signed(Head(led), p, l) + SignedSum(Tail(led), p, l)

\* What the check_in rows of a session brought into a pair.
RECURSIVE CheckedIn(_, _, _, _)
CheckedIn(led, sid, p, l) ==
    IF led = <<>> THEN 0
    ELSE (IF /\ Head(led).session_id = sid
             /\ Head(led).transaction_type = "check_in"
             /\ Head(led).product_id = p
             /\ Head(led).destination_location_id = l
          THEN Head(led).quantity ELSE 0)
         + CheckedIn(Tail(led), sid, p, l)

Pairs == Products \X Locations
Terminal == {"completed", "cancelled"}
Rejected == {"NotFound", "InvalidState"}

LedgerMatchesCache ==
    \A k \in Pairs :
        Quantity(inventory, k[1], k[2])
            = Opening(k[1], k[2]) + SignedSum(ledger, k[1], k[2])

----------------------------------------------------------------------------
(* C1: ledger/cache consistency.  Every call of createInventoryTransaction, *)
(* updateInventoryQuantity, addProductToSession or completeSession that     *)
(* returns successfully, made while each pair's quantity equals its opening *)
(* stock plus the signed sum of its ledger rows, leaves that equality       *)
(* holding for every product and location.                                  *)
C1_LedgerCacheConsistency ==
    [][(/\ LedgerMatchesCache
        /\ last'.op \in {"createInventoryTransaction", "updateInventoryQuantity",
                         "addProductToSession", "completeSession"}
        /\ last'.outcome = "ok")
       => LedgerMatchesCache']_vars

(* C2: validate-before-write.  A createInventoryTransaction of type         *)
(* check_out or transfer whose source row is missing or holds less than the *)
(* requested quantity fails, and leaves the inventory table and the ledger  *)
(* as they were.                                                            *)
C2_ValidateBeforeWrite ==
    [][(/\ last'.op = "createInventoryTransaction"
        /\ last'.type \in {"check_out", "transfer"}
        /\ \/ ~HasRow(inventory, last'.product_id, last'.source_location_id)
           \/ inventory[<<last'.product_id, last'.source_location_id>>]
                  < last'.quantity)
       => (/\ last'.outcome # "ok"
           /\ inventory' = inventory
           /\ ledger' = ledger)]_vars

(* C3: non-negative stock.  Every inventory row holds a quantity >= 0 in    *)
(* every reachable state.                                                   *)
C3_NonNegativeStock ==
    \A k \in DOMAIN inventory : inventory[k] >= 0

(* C4: createInventoryTransaction with quantity <= 0 is rejected, whatever  *)
(* the type, and writes neither a ledger row nor an inventory quantity.     *)
C4_RejectsNonPositiveQuantity ==
    [][(/\ last'.op = "createInventoryTransaction"
        /\ last'.quantity <= 0)
       => (/\ last'.outcome # "ok"
           /\ inventory' = inventory
           /\ ledger' = ledger)]_vars

(* C5: completeSession or cancelSession on a session that is already        *)
(* completed or cancelled fails with the invalid-state error and changes    *)
(* neither the session row, nor any inventory row, nor the ledger.          *)
C5_TerminalSessionRejects ==
    [][\A sid \in SessionIds :
        (/\ last'.op \in {"completeSession", "cancelSession"}
         /\ last'.session_id = sid
         /\ Exists(sid)
         /\ sessions[sid].status \in Terminal)
        => (/\ last'.outcome = "InvalidState"
            /\ sessions' = sessions
            /\ inventory' = inventory
            /\ ledger' = ledger)]_vars

C5_Witness ==
    /\ last.op \in {"completeSession", "cancelSession"}
    /\ last.outcome = "InvalidState"
    /\ Exists(last.session_id)
    /\ sessions[last.session_id].status \in Terminal
    /\ getSessionTransactions(ledger, last.session_id) # <<>>

(* C6: cancelling an in_progress check_in session lowers every pair by      *)
(* exactly the sum of the quantities the session's check-ins brought into   *)
(* it (so a pair the session did not touch keeps its quantity), creates and *)
(* removes no inventory row, and sets the session's status to cancelled.    *)
C6_CancelReversesCheckIns ==
    [][\A sid \in SessionIds :
        (/\ last'.op = "cancelSession"
         /\ last'.session_id = sid
         /\ Exists(sid)
         /\ sessions[sid].status = "in_progress"
         /\ sessions[sid].session_type = "check_in")
        => (/\ last'.outcome = "ok"
            /\ sessions'[sid].status = "cancelled"
            /\ DOMAIN inventory' = DOMAIN inventory
            /\ \A k \in Pairs :
                 Quantity(inventory', k[1], k[2])
                     = Quantity(inventory, k[1], k[2])
                       - CheckedIn(ledger, sid, k[1], k[2]))]_vars

C6_Witness ==
    /\ last.op = "cancelSession"
    /\ last.outcome = "ok"
    /\ sessions[last.session_id].session_type = "check_in"
    /\ LET ts == getSessionTransactions(ledger, last.session_id)
       IN  /\ Len(ts) = 2
           /\ ts[1].quantity > 0
           /\ ts[2].quantity > 0
           /\ ts[1].quantity # ts[2].quantity
           /\ ts[1].product_id = ts[2].product_id

(* C7: addProductToSession on a session that does not exist fails with      *)
(* NotFound, on a session that is not in_progress with InvalidState, and in *)
(* both cases writes no ledger row and changes no inventory quantity.       *)
C7_AddToClosedSessionRejected ==
    [][\A sid \in SessionIds :
        (/\ last'.op = "addProductToSession"
         /\ last'.session_id = sid
         /\ (~Exists(sid) \/ sessions[sid].status # "in_progress"))
        => (/\ last'.outcome = (IF Exists(sid) THEN "InvalidState" ELSE "NotFound")
            /\ ledger' = ledger
            /\ inventory' = inventory
            /\ sessions' = sessions)]_vars

C7_Witness ==
    /\ last.op = "addProductToSession"
    /\ last.outcome = "InvalidState"
    /\ sessions[last.session_id].status \in Terminal

(* C8: completeSession on an in_progress session succeeds, sets the status  *)
(* to completed and sets completed_at; it changes nothing else of the       *)
(* session, no other session, no inventory row and no ledger row.           *)
C8_CompleteOnlyUpdatesSession ==
    [][\A sid \in SessionIds :
        (/\ last'.op = "completeSession"
         /\ last'.session_id = sid
         /\ Exists(sid)
         /\ sessions[sid].status = "in_progress")
        => (/\ last'.outcome = "ok"
            /\ sessions' = [sessions EXCEPT ![sid] =
                   Session(sessions[sid].session_type, "completed",
                           sessions[sid].location_id, sessions'[sid].completed_at)]
            /\ sessions'[sid].completed_at # NULL
            /\ inventory' = inventory
            /\ ledger' = ledger)]_vars

C8_Witness ==
    /\ last.op = "completeSession"
    /\ last.outcome = "ok"
    /\ sessions[last.session_id].status = "completed"
    /\ getSessionTransactions(ledger, last.session_id) # <<>>

(* C9: every call of addProductToSession that gets past the session checks  *)
(* records exactly one transaction, which carries the session's id; for a   *)
(* check_in session it is a check_in with destination = the session's       *)
(* location and no source, for every other session type a check_out with    *)
(* source = the session's location and no destination.                      *)
C9_MovementDerivedFromSession ==
    [][\A sid \in SessionIds :
        (/\ last'.op = "addProductToSession"
         /\ last'.session_id = sid
         /\ last'.outcome \notin Rejected)
        => (/\ Len(ledger') = Len(ledger) + 1
            /\ SubSeq(ledger', 1, Len(ledger)) = ledger
            /\ LET t == ledger'[Len(ledger')]
                   s == sessions[sid]
               IN  /\ t.session_id = sid
                   /\ t.product_id = last'.product_id
                   /\ t.quantity = last'.quantity
                   /\ IF s.session_type = "check_in"
                      THEN /\ t.transaction_type = "check_in"
                           /\ t.destination_location_id = s.location_id
                           /\ t.source_location_id = NULL
                      ELSE /\ t.transaction_type = "check_out"
                           /\ t.source_location_id = s.location_id
                           /\ t.destination_location_id = NULL)]_vars

C9_Witness ==
    /\ last.op = "addProductToSession"
    /\ last.outcome = "ok"
    /\ sessions[last.session_id].session_type = "inventory_count"
    /\ ledger[Len(ledger)].transaction_type = "check_out"

(* C10: updateInventoryQuantity sets, not adds.  After it returns the       *)
(* pair's row exists and holds the target, exactly one ledger row has been  *)
(* appended, of type adjustment and with quantity |target - previous| (the  *)
(* previous quantity being 0 when the pair had no row), and no other        *)
(* inventory row has changed.                                               *)
C10_UpdateSetsQuantity ==
    [][(/\ last'.op = "updateInventoryQuantity"
        /\ last'.outcome = "ok")
       => LET p == last'.product_id
              l == last'.source_location_id
              target == last'.quantity
              previous == Quantity(inventory, p, l)
          IN  /\ HasRow(inventory', p, l)
              /\ inventory'[<<p, l>>] = target
              /\ \A k \in Pairs \ {<<p, l>>} :
                   /\ HasRow(inventory', k[1], k[2]) = HasRow(inventory, k[1], k[2])
                   /\ Quantity(inventory', k[1], k[2]) = Quantity(inventory, k[1], k[2])
              /\ Len(ledger') = Len(ledger) + 1
              /\ SubSeq(ledger', 1, Len(ledger)) = ledger
              /\ ledger'[Len(ledger')].transaction_type = "adjustment"
              /\ ledger'[Len(ledger')].quantity = Abs(target - previous)]_vars

(* C11: updateInventoryQuantity called with a negative argument that would  *)
(* leave the pair with a negative quantity (whether the argument is read as *)
(* the target or as a change of the quantity held) is rejected with the     *)
(* insufficient-inventory error and writes nothing: the inventory table and *)
(* the ledger are as before.                                                *)
C11_RejectsNegativeResult ==
    [][(/\ last'.op = "updateInventoryQuantity"
        /\ last'.quantity < 0
        /\ Quantity(inventory, last'.product_id, last'.source_location_id)
               + last'.quantity < 0)
       => (/\ last'.outcome = "InsufficientStock"
           /\ inventory' = inventory
           /\ ledger' = ledger)]_vars

(* C12: barcode uniqueness.  In every state reached by createProduct,       *)
(* updateProduct and deleteProduct no two product rows hold the same        *)
(* non-null barcode; a createProduct or updateProduct whose barcode is held *)
(* by another product fails with a duplicate error and leaves the products  *)
(* table as it was; a createProduct with a null barcode is never refused    *)
(* for its barcode, however many rows already have none.                    *)
DuplicateErrors == {"DuplicateKey", "UniqueConstraint"}

C12_BarcodeUniqueness ==
    /\ [](\A a, b \in DOMAIN products :
            (a # b /\ products[a].barcode # NULL)
                => products[a].barcode # products[b].barcode)
    /\ [][(/\ last'.op = "createProduct"
           /\ last'.args.data.barcode # NULL
           /\ productsWithBarcode(products, last'.args.data.barcode, {}) # {})
          => (last'.outcome \in DuplicateErrors /\ products' = products)]_vars
    /\ [][(/\ last'.op = "updateProduct"
           /\ last'.args.id \in DOMAIN products
           /\ "barcode" \in DOMAIN last'.args.data
           /\ last'.args.data.barcode # NULL
           /\ productsWithBarcode(products, last'.args.data.barcode,
                                  {last'.args.id}) # {})
          => (last'.outcome \in DuplicateErrors /\ products' = products)]_vars
    /\ [][(/\ last'.op = "createProduct"
           /\ last'.args.data.barcode = NULL)
          => (/\ last'.outcome = "ok"
              /\ DOMAIN products' = DOMAIN products \cup {last'.returned}
              /\ last'.returned \notin DOMAIN products
              /\ products'[last'.returned].barcode = NULL)]_vars

C12_Witness ==
    /\ last.op = "updateProduct"
    /\ last.outcome = "DuplicateKey"
    /\ Cardinality(productsWithBarcode(products, NULL, {})) >= 2
    /\ \E id \in DOMAIN products : products[id].is_active = 0

(* C13 as stated: the low-stock query returns exactly the inventory rows    *)
(* whose quantity is <= the product's minimum_stock, and low_stock_count is *)
(* the size of that set.                                                    *)
LowStockRows(inv, prods) ==
    {k \in DOMAIN inv : inv[k] <= prods[k[1]].minimum_stock}

ActiveLowStockRows(inv, prods) ==
    {k \in LowStockRows(inv, prods) : prods[k[1]].is_active = 1}

C14_SummaryIsSumOfCategories ==
    [][last'.op = "getInventoryValuationReport"
        => LET cats == last'.returned.categories
               summary == last'.returned.summary
           IN  /\ Coalesce(summary.total_quantity)
                    = Sum(DOMAIN cats, [c \in DOMAIN cats |-> Coalesce(cats[c].total_quantity)])
               /\ Coalesce(summary.total_value)
                    = Sum(DOMAIN cats, [c \in DOMAIN cats |-> Coalesce(cats[c].total_value)])
               /\ Coalesce(summary.total_cost)
                    = Sum(DOMAIN cats, [c \in DOMAIN cats |-> Coalesce(cats[c].total_cost)])]_vars

(* C15: authenticateUser returns a token only when the user exists, the     *)
(* account is active and the password verifies against the stored hash; an  *)
(* inactive account fails with the inactive-account error, a wrong password *)
(* on an active account with the invalid-credentials error; every failing   *)
(* call issues no token and leaves the users table, last_login included, as *)
(* it was.                                                                  *)
InactiveAccountErrors == {"User account is inactive"}
InvalidCredentialsErrors == {"Invalid password", "Invalid username or password"}

C15_AuthenticateRejects ==
    [][last'.op = "authenticateUser"
        => LET u == last'.args.username
               known == u \in DOMAIN users
               verified == known /\ verifyPassword(last'.args.password,
                                                   users[u].password_hash)
           IN  /\ last'.returned # None
                    => (known /\ users[u].active = 1 /\ verified)
               /\ (known /\ users[u].active = 0)
                    => last'.outcome \in InactiveAccountErrors
               /\ (known /\ users[u].active = 1 /\ ~verified)
                    => last'.outcome \in InvalidCredentialsErrors
               /\ last'.outcome # "ok"
                    => (last'.returned = None /\ users' = users)]_vars

HttpOps ==
    {"POST products", "POST sessions", "POST inventory", "POST reports",
     "POST auth/register"}
Store == <<inventory, ledger, sessions, products, users, reports, audit_logs>>

\* C16: a handler that writes answers 401 and leaves every table, users and
\* audit_logs included, as it was, unless the request carries an
\* Authorization: Bearer token that verifyToken accepts.
C16_WritesNeedBearerToken ==
    [][(/\ last'.op \in HttpOps
        /\ authorize(last'.args.authHeader).user = None)
          => /\ last'.returned = 401
             /\ UNCHANGED Store]_vars

\* C17: when the mutation of createProduct, createSession,
\* updateInventoryQuantity or saveReport is written and createAuditLog then
\* fails, the mutation stays and the caller receives the success response.
C17_AuditFailureIsNotAnError ==
    [][(/\ last'.op \in HttpOps \ {"POST auth/register"}
        /\ last'.args.auditFails
        /\ <<inventory, ledger, sessions, products, reports>>'
              # <<inventory, ledger, sessions, products, reports>>)
          => last'.returned \in {200, 201}]_vars

\* C19: under every interleaving of the statements of concurrent
\* completeSession, cancelSession and addProductToSession requests, a session
\* whose status is completed or cancelled keeps that status.
C19_TerminalIsFinalUnderConcurrency ==
    [][\A sid \in DOMAIN sessions :
          sessions[sid].status \in Terminal
             => sessions'[sid].status = sessions[sid].status]_vars

\* How many times cancelSession calls have applied the inverse of the
\* transaction with id i.
Reversals(i) ==
    Cardinality({r \in DOMAIN requests :
                    /\ requests[r].op = "cancelSession"
                    /\ \E k \in 1..requests[r].reversed :
                          requests[r].transactions[k] = i})

\* C20: whatever cancelSession calls are made (repeated, concurrent, retried
\* after a call failed inside its loop), the inverse of each transaction
\* logged under a session is applied to the inventory at most once.
C20_ReversedAtMostOnce ==
    \A i \in DOMAIN ledger : ledger[i].session_id # NoSession => Reversals(i) <= 1

\* C22: when the addProductToSession calls of a check_out session, accepted
\* or rejected, are the only operations on the stock since it was seeded,
\* cancelling the session returns every pair to its quantity from before the
\* first of them, the opening stock.
C22_CancelRestoresCheckOuts ==
    [][(/\ last'.op = "cancelSession"
        /\ last'.outcome = "ok"
        /\ sessions[last'.session_id].session_type = "check_out")
          => \A k \in Pairs :
                Quantity(inventory', k[1], k[2]) = Opening(k[1], k[2])]_vars

\* The quantity of a product over all locations.
TotalQuantity(inv, p) ==
    Sum({k \in DOMAIN inv : k[1] = p}, inv)

\* C23: a successful transfer of q of product p from s to d takes q from
\* (p,s) and gives q to (p,d), whose row it creates with quantity q when
\* absent; the product's total over all locations stays the same and no
\* other row changes.
C23_TransferMovesStock ==
    [][(/\ last'.op = "createInventoryTransaction"
        /\ last'.type = "transfer"
        /\ last'.outcome = "ok")
          => LET p == last'.product_id
                 s == last'.source_location_id
                 d == last'.destination_location_id
                 q == last'.quantity
                 moved == Row("transfer", p, s, d, q, NoSession)
             IN  /\ \A k \in Pairs :
                       Quantity(inventory', k[1], k[2])
                          = Quantity(inventory, k[1], k[2]) + Signed(moved, k[1], k[2])
                 /\ DOMAIN inventory' = DOMAIN inventory \cup {<<p, d>>}
                 /\ ~HasRow(inventory, p, d) => inventory'[<<p, d>>] = q
                 /\ TotalQuantity(inventory', p) = TotalQuantity(inventory, p)
                 /\ \A k \in DOMAIN inventory \ {<<p, s>>, <<p, d>>} :
                       inventory'[k] = inventory[k]]_vars

\* A transfer between two locations has created the destination row.
C23_Witness ==
    /\ last.op = "createInventoryTransaction"
    /\ last.type = "transfer"
    /\ last.outcome = "ok"
    /\ last.source_location_id = "loc-001"
    /\ last.destination_location_id = "loc-002"
    /\ last.quantity > 0
    /\ Len(ledger) = 1
    /\ inventory[<<last.product_id, "loc-002">>] = last.quantity
    /\ inventory[<<last.product_id, "loc-001">>]
          = Opening(last.product_id, "loc-001") - last.quantity

\* C24: every row of inventory_transactions carries a quantity greater than
\* zero, the adjustment rows updateInventoryQuantity writes included,
\* whatever the target and the previous quantity.
C24_LedgerQuantitiesPositive ==
    \A i \in DOMAIN ledger : ledger[i].quantity > 0

\* The inventory rows of products that are not soft-deleted, and the sum of
\* a column over them as a query returns it.
RowsOfActiveProducts ==
    {k \in DOMAIN inventory : products[k[1]].is_active = 1}
SumOverActive(rows, column) ==
    IF rows = {} THEN NullNumber ELSE <<Sum(rows, column)>>
InCategory(c) == {k \in RowsOfActiveProducts : products[k[1]].category_id = c}

\* C25: deleteProduct removes no row: on an existing product it only sets
\* is_active to 0 and leaves the product row, the inventory and the ledger in
\* place; on a missing product it fails with NotFound and writes nothing.
\* The inventory rows of a soft-deleted product are in no result of
\* getInventory, getInventorySummary, getLowStockReport or
\* getInventoryValuationReport: rows listed are rows of active products and
\* totals are sums over those rows only.
C25_SoftDelete ==
    [][/\ last'.op = "deleteProduct"
            => /\ DOMAIN products' = DOMAIN products
               /\ UNCHANGED <<inventory, ledger>>
               /\ IF last'.args.id \in DOMAIN products
                  THEN /\ last'.outcome = "ok"
                       /\ products' = [products EXCEPT ![last'.args.id].is_active = 0]
                  ELSE /\ last'.outcome = "NotFound"
                       /\ products' = products
       /\ last'.op = "getInventory"
            => last'.returned \subseteq RowsOfActiveProducts
       /\ last'.op = "getLowStockReport"
            => /\ last'.returned.items \subseteq RowsOfActiveProducts
               /\ last'.returned.count = Cardinality(last'.returned.items)
       /\ last'.op = "getInventorySummary"
            => /\ last'.returned.total_bottles
                     = Sum(RowsOfActiveProducts, quantityOf(inventory))
               /\ last'.returned.total_value
                     = Sum(RowsOfActiveProducts, valueOf(inventory, products))
               /\ last'.returned.low_stock_count <= Cardinality(RowsOfActiveProducts)
               /\ \A c \in DOMAIN last'.returned.categories :
                     /\ InCategory(c) # {}
                     /\ last'.returned.categories[c].total_bottles
                           = SumOverActive(InCategory(c), quantityOf(inventory))
       /\ last'.op = "getInventoryValuationReport"
            => /\ last'.returned.summary.total_quantity
                     = SumOverActive(RowsOfActiveProducts, quantityOf(inventory))
               /\ last'.returned.summary.total_value
                     = SumOverActive(RowsOfActiveProducts, valueOf(inventory, products))
               /\ \A c \in DOMAIN last'.returned.categories :
                     /\ InCategory(c) # {}
                     /\ last'.returned.categories[c].total_quantity
                           = SumOverActive(InCategory(c), quantityOf(inventory))]_vars

\* The stock list asked for after a product with stock was soft-deleted: it
\* lists the other product's row and not the deleted product's.
C25_Witness ==
    /\ last.op = "getInventory"
    /\ ~last.args.lowStock
    /\ last.returned # {}
    /\ \E k \in DOMAIN inventory :
          /\ products[k[1]].is_active = 0
          /\ inventory[k] > 0
          /\ k \notin last.returned

\* C26: the request the Check-In page sends with an accepted token opens a
\* session, and the session it opens is one on which addProductToSession
\* records check_in transactions into the session's location; every
\* addProductToSession that succeeds raises the quantity there and lowers
\* none.
C26_CheckInPageChecksIn ==
    [][/\ (/\ last'.op = "POST sessions"
           /\ authorize(last'.args.authHeader).user # None
           /\ ~last'.args.auditFails)
            => /\ last'.returned = 201
               /\ Len(sessions') = Len(sessions) + 1
               /\ \A p \in Products, q \in PositiveQty :
                     LET sid == Len(sessions')
                         row == sessionTransaction(sessions'[sid], sid, p, q)
                     IN  /\ row.transaction_type = "check_in"
                         /\ row.destination_location_id = sessions'[sid].location_id
       /\ (last'.op = "addProductToSession" /\ last'.outcome = "ok")
            => /\ last'.type = "check_in"
               /\ \A k \in Pairs : Quantity(inventory', k[1], k[2])
                                     >= Quantity(inventory, k[1], k[2])]_vars

\* C29: runSavedReport returns a report result, or it fails (the report does
\* not exist, its type is not supported) and then every reports row, last_run
\* included, is as it was before the call.
C29_RunFailsWithoutWriting ==
    [][last'.op = "runSavedReport"
          => \/ last'.outcome = "ok" /\ last'.returned # None
             \/ /\ last'.outcome \in {"NotFound", "Unsupported"}
                /\ reports' = reports]_vars

\* ceil(length / itemsPerPage): the least number of pages that hold the list.
PagesNeeded(length, size) ==
    CHOOSE t \in 0..length : t * size >= length /\ (t > 0 => (t - 1) * size < length)

PagerOps == {"goToPage", "nextPage", "prevPage"}

\* C30: for a fixed list and page size, after any goToPage(n), nextPage and
\* prevPage, 1 <= currentPage <= max(1, totalPages) with totalPages =
\* ceil(length / itemsPerPage); hasNext is currentPage < totalPages and
\* hasPrev is currentPage > 1; nextPage on the last page and prevPage on the
\* first leave currentPage as it is.
C30_PageStaysInRange ==
    [][LET pages == PagesNeeded(pagination.length, pagination.itemsPerPage)
       IN  /\ last'.op \in PagerOps
                => /\ pagination'.length = pagination.length
                   /\ pagination'.itemsPerPage = pagination.itemsPerPage
                   /\ 1 <= pagination'.currentPage
                   /\ pagination'.currentPage <= Max(1, pages)
                   /\ last'.returned.currentPage = pagination'.currentPage
                   /\ last'.returned.totalPages = pages
                   /\ last'.returned.hasNext = (pagination'.currentPage < pages)
                   /\ last'.returned.hasPrev = (pagination'.currentPage > 1)
           /\ (last'.op = "goToPage" /\ last'.args.page \in 1..pages)
                => pagination'.currentPage = last'.args.page
           /\ (last'.op = "nextPage" /\ pagination.currentPage >= pages)
                => pagination'.currentPage = pagination.currentPage
           /\ (last'.op = "nextPage" /\ pagination.currentPage < pages)
                => pagination'.currentPage = pagination.currentPage + 1
           /\ (last'.op = "prevPage" /\ pagination.currentPage = 1)
                => pagination'.currentPage = 1
           /\ (last'.op = "prevPage" /\ pagination.currentPage > 1)
                => pagination'.currentPage = pagination.currentPage - 1]_vars

\* nextPage was pressed on the last of several pages of a list whose last
\* page is not full.
C30_Witness ==
    /\ last.op = "nextPage"
    /\ pagination.itemsPerPage = 3
    /\ pagination.length = 7
    /\ pagination.currentPage = 3
    /\ ~last.returned.hasNext
    /\ last.returned.hasPrev

\* C21: the sufficiency check of a check_out and its deduction are separate
\* statements: a request that has passed the check deducts its quantity
\* whatever the row holds by then, so two check-outs that both pass it before
\* either deduction lands leave the row below zero.
C21_CheckOutRace ==
    [][\A r \in DOMAIN requests :
          (/\ requests[r].op = "check_out"
           /\ requests[r].pc = "updateInventory"
           /\ requests'[r].pc = "done")
             => inventory'[MovedPair(r)]
                   = inventory[MovedPair(r)] - requests[r].quantity]_vars

\* Two check-outs of 7 from the 12 seeded bottles are both done: -2 are left.
C21_Witness ==
    /\ Len(requests) = 2
    /\ \A r \in DOMAIN requests :
          /\ requests[r].op = "check_out"
          /\ requests[r].quantity = 7
          /\ requests[r].outcome = "ok"
          /\ MovedPair(r) = <<"prod-001", "loc-001">>
    /\ inventory[<<"prod-001", "loc-001">>] = SeedQtyCab - 14
    /\ inventory[<<"prod-001", "loc-001">>] < 0

\* C27: when two concurrent check_in requests into the same pair have
\* finished, both have returned successfully and the pair's one row holds
\* the initial quantity plus both quantities, whether or not the pair had a
\* row before.
C27_NoCheckInLost ==
    \A k \in Pairs :
        (/\ Len(requests) = 2
         /\ \A r \in DOMAIN requests :
               /\ requests[r].op = "check_in"
               /\ MovedPair(r) = k
               /\ requests[r].pc \in {"done", "failed"})
          => /\ \A r \in DOMAIN requests : requests[r].outcome = "ok"
             /\ Quantity(inventory, k[1], k[2])
                   = Opening(k[1], k[2]) + requests[1].quantity + requests[2].quantity

\* C28: when the one cancelSession made on a session has returned and every
\* request on the session has finished, however their statements were
\* interleaved, the transactions carrying the session's id have no net
\* effect: with no other operation on the stock, every pair is back at its
\* opening quantity.
C28_CancelledLeavesNoMovement ==
    \A sid \in DOMAIN sessions :
        (/\ sessions[sid].status = "cancelled"
         /\ \A r \in DOMAIN requests : requests[r].pc \in {"done", "failed"}
         /\ Cardinality({r \in DOMAIN requests :
                            requests[r].op = "cancelSession"}) = 1
         /\ \A r \in DOMAIN requests :
               requests[r].op = "cancelSession" => requests[r].outcome = "ok")
          => \A k \in Pairs : Quantity(inventory, k[1], k[2]) = Opening(k[1], k[2])

====
